---------------------------- MODULE Spec2Model ----------------------------
(***************************************************************************)
(* Hospital Patient Care Management System: the four bounded containers    *)
(* (PatientQueue, SupplyStack, EmergencyMaxHeap, AmbulanceCQueue), their   *)
(* text persistence and the menu handlers that drive them.                 *)
(*                                                                         *)
(* A text value (a C string held in a char array) is a sequence of         *)
(* one-character strings.  A file is a record: whether it exists and, if   *)
(* it does, its sequence of lines, each a text.                            *)
(***************************************************************************)
EXTENDS Integers, Sequences, FiniteSets, Bags, TLC

VARIABLES
    role,       \* the component this session operates on (main's switch)
    gPatients,  \* PatientQueue  : [data, head, tail, count]
    gSupplies,  \* SupplyStack   : [data, top]
    gEmerg,     \* EmergencyMaxHeap : [data, sz]
    gAmb,       \* AmbulanceCQueue : [data, head, tail, count]
    files,      \* role -> its text file (NoFile when there is none)
    op,         \* the operation that ran last
    ret,        \* what it returned to its caller ("void" for a void function)
    msg,        \* the outcome it printed on the console ("" when nothing)
    out,        \* the caller's output record (dequeue/pop out-parameter, top())
    saved,      \* whether the last operation rewrote its file
    failures,   \* number of saves that could not open their destination
    hist,       \* history: the records put in and taken out by the direct
                \* calls since the container was last empty
    shown,      \* the records the last call listed on the console (print)
    loop_i      \* the index i of a sift loop that is running (0 when none is)

vars == <<role, gPatients, gSupplies, gEmerg, gAmb, files, op, ret, msg, out, saved,
          failures, hist, shown, loop_i>>

(***************************************************************************)
(* Capacities.  The program uses 100/100/100/20; the model scales them.    *)
(***************************************************************************)
MAX_PATIENTS == 3
MAX_SUPPLIES == 3
MAX_EMERG == 5
MAX_AMBULANCES == 3

\* How many saves may fail to open their destination in one session.
MaxSaveFailures == 1

Roles == {"patients", "supplies", "emerg", "amb"}
NoFile == [exists |-> FALSE, lines |-> <<>>]
TextFile(lines) == [exists |-> TRUE, lines |-> lines]

(***************************************************************************)
(* Record types.  Static storage is zero-initialised: every slot of a      *)
(* global container starts as the all-zero record.                        *)
(***************************************************************************)
ZeroPatient == [id |-> <<>>, name |-> <<>>, condition |-> <<>>]
ZeroSupply == [type |-> <<>>, quantity |-> 0, batch |-> <<>>]
ZeroEmergencyCase == [patient |-> <<>>, type |-> <<>>, priority |-> 0]
ZeroAmbulance == [plate |-> <<>>]

(***************************************************************************)
(* PatientQueue: ring buffer over data[0 .. MAX_PATIENTS-1].               *)
(***************************************************************************)
PatientQueue_new ==
    [data |-> [i \in 0..(MAX_PATIENTS - 1) |-> ZeroPatient],
     head |-> 0, tail |-> 0, count |-> 0]

PatientQueue_isFull(q) == q.count = MAX_PATIENTS
PatientQueue_isEmpty(q) == q.count = 0

\* A clear that resets the count and leaves head and tail where they are.
PatientQueue_clear_count_only(q) == [q EXCEPT !.count = 0]

PatientQueue_clear(q) == [q EXCEPT !.head = 0, !.tail = 0, !.count = 0]

\* enqueue without the isFull test.
PatientQueue_enqueue_unchecked(q, p) ==
    [q |-> [q EXCEPT !.data[q.tail] = p,
                     !.tail = (q.tail + 1) % MAX_PATIENTS,
                     !.count = q.count + 1],
     ret |-> TRUE]

\* enqueue returns the new queue and the bool result.
PatientQueue_enqueue(q, p) ==
    IF PatientQueue_isFull(q)
    THEN [q |-> q, ret |-> FALSE]
    ELSE [q |-> [q EXCEPT !.data[q.tail] = p,
                          !.tail = (q.tail + 1) % MAX_PATIENTS,
                          !.count = q.count + 1],
          ret |-> TRUE]

\* The enqueue of the single-file build (hospital.cpp): it also refuses a
\* record whose id or name is empty.
hospital_PatientQueue_enqueue(q, p) ==
    IF PatientQueue_isFull(q)
    THEN [q |-> q, ret |-> FALSE]
    ELSE IF p.id = <<>> \/ p.name = <<>>
    THEN [q |-> q, ret |-> FALSE]
    ELSE [q |-> [q EXCEPT !.data[q.tail] = p,
                          !.tail = (q.tail + 1) % MAX_PATIENTS,
                          !.count = q.count + 1],
          ret |-> TRUE]

\* A print that walks the array from slot 0 instead of from head.
RECURSIVE PatientQueue_print_from_slot0(_, _)
PatientQueue_print_from_slot0(q, i) ==
    IF i >= q.count THEN <<>>
    ELSE <<q.data[i % MAX_PATIENTS]>> \o PatientQueue_print_from_slot0(q, i + 1)

\* print(): the records listed, one per pass of the loop entered with i
\* (nothing is listed for an empty queue: count is 0).
RECURSIVE PatientQueue_print(_, _)
PatientQueue_print(q, i) ==
    IF i >= q.count THEN <<>>
    ELSE LET idx == (q.head + i) % MAX_PATIENTS
         IN  <<q.data[idx]>> \o PatientQueue_print(q, i + 1)

\* dequeue that hands out the newest record (the one before tail).
PatientQueue_dequeue_newest(q, o) ==
    IF PatientQueue_isEmpty(q)
    THEN [q |-> q, ret |-> FALSE, out |-> o]
    ELSE [q |-> [q EXCEPT !.tail = (q.tail + MAX_PATIENTS - 1) % MAX_PATIENTS,
                          !.count = q.count - 1],
          ret |-> TRUE,
          out |-> q.data[(q.tail + MAX_PATIENTS - 1) % MAX_PATIENTS]]

\* dequeue returns the new queue, the bool result and the out-parameter
\* (o is the caller's record before the call).
PatientQueue_dequeue(q, o) ==
    IF PatientQueue_isEmpty(q)
    THEN [q |-> q, ret |-> FALSE, out |-> o]
    ELSE [q |-> [q EXCEPT !.head = (q.head + 1) % MAX_PATIENTS,
                          !.count = q.count - 1],
          ret |-> TRUE, out |-> q.data[q.head]]


(***************************************************************************)
(* AmbulanceCQueue: ring buffer over data[0 .. MAX_AMBULANCES-1] with      *)
(* rotateOnce.                                                             *)
(***************************************************************************)
AmbulanceCQueue_new ==
    [data |-> [i \in 0..(MAX_AMBULANCES - 1) |-> ZeroAmbulance],
     head |-> 0, tail |-> 0, count |-> 0]

AmbulanceCQueue_isFull(q) == q.count = MAX_AMBULANCES
AmbulanceCQueue_isEmpty(q) == q.count = 0

AmbulanceCQueue_clear(q) == [q EXCEPT !.head = 0, !.tail = 0, !.count = 0]

AmbulanceCQueue_enqueue(q, a) ==
    IF AmbulanceCQueue_isFull(q)
    THEN [q |-> q, ret |-> FALSE]
    ELSE [q |-> [q EXCEPT !.data[q.tail] = a,
                          !.tail = (q.tail + 1) % MAX_AMBULANCES,
                          !.count = q.count + 1],
          ret |-> TRUE]

\* dequeue that writes the front slot to the out-parameter before testing
\* for empty.
AmbulanceCQueue_dequeue_sentinel(q, o) ==
    IF AmbulanceCQueue_isEmpty(q)
    THEN [q |-> q, ret |-> FALSE, out |-> q.data[q.head]]
    ELSE [q |-> [q EXCEPT !.head = (q.head + 1) % MAX_AMBULANCES,
                          !.count = q.count - 1],
          ret |-> TRUE, out |-> q.data[q.head]]

\* A dequeue that hands out the front record and leaves head where it is.
AmbulanceCQueue_dequeue_keep_head(q, o) ==
    IF AmbulanceCQueue_isEmpty(q)
    THEN [q |-> q, ret |-> FALSE, out |-> o]
    ELSE [q |-> [q EXCEPT !.count = q.count - 1],
          ret |-> TRUE, out |-> q.data[q.head]]

AmbulanceCQueue_dequeue(q, o) ==
    IF AmbulanceCQueue_isEmpty(q)
    THEN [q |-> q, ret |-> FALSE, out |-> o]
    ELSE [q |-> [q EXCEPT !.head = (q.head + 1) % MAX_AMBULANCES,
                          !.count = q.count - 1],
          ret |-> TRUE, out |-> q.data[q.head]]

\* print(): the plates listed, one per pass of the loop entered with i.
RECURSIVE AmbulanceCQueue_print(_, _)
AmbulanceCQueue_print(q, i) ==
    IF i >= q.count THEN <<>>
    ELSE LET idx == (q.head + i) % MAX_AMBULANCES
         IN  <<q.data[idx]>> \o AmbulanceCQueue_print(q, i + 1)

\* rotateOnce without the count <= 1 test.
AmbulanceCQueue_rotateOnce_unguarded(q) ==
    LET d == AmbulanceCQueue_dequeue(q, ZeroAmbulance)
    IN  AmbulanceCQueue_enqueue(d.q, d.out).q

\* rotateOnce that puts back the record it declared, not the one dequeued.
AmbulanceCQueue_rotateOnce_requeue_blank(q) ==
    IF q.count <= 1
    THEN q
    ELSE LET d == AmbulanceCQueue_dequeue(q, ZeroAmbulance)
         IN  AmbulanceCQueue_enqueue(d.q, ZeroAmbulance).q

\* rotateOnce that enqueues a copy of the front record before dequeuing it.
AmbulanceCQueue_rotateOnce_enqueue_first(q) ==
    IF q.count <= 1
    THEN q
    ELSE LET e == AmbulanceCQueue_enqueue(q, q.data[q.head])
         IN  AmbulanceCQueue_dequeue(e.q, ZeroAmbulance).q

\* rotateOnce that dequeues the front record and does not put it back.
AmbulanceCQueue_rotateOnce_drop_first(q) ==
    IF q.count <= 1
    THEN q
    ELSE AmbulanceCQueue_dequeue(q, ZeroAmbulance).q

\* rotateOnce: Ambulance first{}; dequeue(first); enqueue(first);
AmbulanceCQueue_rotateOnce(q) ==
    IF q.count <= 1
    THEN q
    ELSE LET d == AmbulanceCQueue_dequeue(q, ZeroAmbulance)
         IN  AmbulanceCQueue_enqueue(d.q, d.out).q

(***************************************************************************)
(* SupplyStack: array stack over data[0 .. MAX_SUPPLIES-1], top = -1 when  *)
(* empty.                                                                  *)
(***************************************************************************)
SupplyStack_new ==
    [data |-> [i \in 0..(MAX_SUPPLIES - 1) |-> ZeroSupply], top |-> -1]

SupplyStack_isFull(s) == s.top = MAX_SUPPLIES - 1
SupplyStack_isEmpty(s) == s.top = -1

SupplyStack_clear(s) == [s EXCEPT !.top = -1]

\* A push without the isFull test.
SupplyStack_push_unchecked(s, x) ==
    [s |-> [s EXCEPT !.top = s.top + 1,
                     !.data = [i \in DOMAIN s.data |-> IF i = s.top + 1 THEN x ELSE s.data[i]]],
     ret |-> TRUE]

SupplyStack_push(s, x) ==
    IF SupplyStack_isFull(s)
    THEN [s |-> s, ret |-> FALSE]
    ELSE [s |-> [s EXCEPT !.top = s.top + 1, !.data[s.top + 1] = x],
          ret |-> TRUE]

\* pop that reads the slot after decrementing top.
SupplyStack_pop_below(s, o) ==
    IF SupplyStack_isEmpty(s)
    THEN [s |-> s, ret |-> FALSE, out |-> o]
    ELSE [s |-> [s EXCEPT !.top = s.top - 1],
          ret |-> TRUE, out |-> s.data[IF s.top = 0 THEN 0 ELSE s.top - 1]]

SupplyStack_pop(s, o) ==
    IF SupplyStack_isEmpty(s)
    THEN [s |-> s, ret |-> FALSE, out |-> o]
    ELSE [s |-> [s EXCEPT !.top = s.top - 1],
          ret |-> TRUE, out |-> s.data[s.top]]

(***************************************************************************)
(* EmergencyMaxHeap: binary max-heap over data[1 .. MAX_EMERG] (slot 0 is  *)
(* allocated and never used).                                              *)
(***************************************************************************)
EmergencyMaxHeap_new ==
    [data |-> [i \in 0..MAX_EMERG |-> ZeroEmergencyCase], sz |-> 0]

EmergencyMaxHeap_isFull(h) == h.sz = MAX_EMERG
EmergencyMaxHeap_isEmpty(h) == h.sz = 0

EmergencyMaxHeap_clear(h) == [h EXCEPT !.sz = 0]

\* A swap that copies data[j] over data[i] and leaves data[j] as it is.
swapCase_copy(data, i, j) == [data EXCEPT ![i] = data[j]]

\* swapCase(data[i], data[j])
swapCase(data, i, j) == [data EXCEPT ![i] = data[j], ![j] = data[i]]

\* A sift-up that also swaps with a parent of equal priority.
RECURSIVE siftUp_past_equal(_, _)
siftUp_past_equal(data, i) ==
    IF i > 1 /\ data[i].priority >= data[i \div 2].priority
    THEN siftUp_past_equal(swapCase(data, i, i \div 2), i \div 2)
    ELSE data

\* A sift-up that stops after one level.
siftUp_one_level(data, i) ==
    IF i > 1 /\ data[i].priority > data[i \div 2].priority
    THEN swapCase(data, i, i \div 2)
    ELSE data

\* The sift-up loop of push, entered with index i.
RECURSIVE siftUp(_, _)
siftUp(data, i) ==
    IF i > 1 /\ data[i].priority > data[i \div 2].priority
    THEN siftUp(swapCase(data, i, i \div 2), i \div 2)
    ELSE data

\* A push that puts the record in the first free slot and leaves it there.
EmergencyMaxHeap_push_unsifted(h, e) ==
    IF EmergencyMaxHeap_isFull(h)
    THEN h
    ELSE [h EXCEPT !.sz = h.sz + 1, !.data = [h.data EXCEPT ![h.sz + 1] = e]]

EmergencyMaxHeap_push(h, e) ==
    IF EmergencyMaxHeap_isFull(h)
    THEN h
    ELSE LET n == h.sz + 1
         IN  [h EXCEPT !.sz = n,
                       !.data = siftUp([h.data EXCEPT ![n] = e], n)]

EmergencyMaxHeap_top(h) == h.data[1]

\* The loop body with the right child winning a tie with the left.
largestOf_right_on_tie(data, sz, i) ==
    LET left == 2 * i
        right == 2 * i + 1
        l1 == IF left <= sz /\ data[left].priority > data[i].priority
              THEN left ELSE i
    IN  IF right <= sz /\ data[right].priority >= data[l1].priority
                       /\ data[right].priority > data[i].priority
        THEN right ELSE l1

\* The loop body with the right child compared against the node instead of
\* against the largest so far.
largestOf_right_vs_node(data, sz, i) ==
    LET left == 2 * i
        right == 2 * i + 1
        l1 == IF left <= sz /\ data[left].priority > data[i].priority
              THEN left ELSE i
    IN  IF right <= sz /\ data[right].priority > data[i].priority
        THEN right ELSE l1

\* One pass of pop's loop body: the index of the largest of {i, left, right}.
largestOf(data, sz, i) ==
    LET left == 2 * i
        right == 2 * i + 1
        l1 == IF left <= sz /\ data[left].priority > data[i].priority
              THEN left ELSE i
    IN  IF right <= sz /\ data[right].priority > data[l1].priority
        THEN right ELSE l1

\* The sift-down loop of pop, entered with index i.
RECURSIVE siftDown(_, _, _)
siftDown(data, sz, i) ==
    LET largest == largestOf(data, sz, i)
    IN  IF largest = i
        THEN data
        ELSE siftDown(swapCase(data, i, largest), sz, largest)

\* A pop that forgets to move the last record to the root before shrinking.
EmergencyMaxHeap_pop_keep_root(h) ==
    IF EmergencyMaxHeap_isEmpty(h)
    THEN h
    ELSE [h EXCEPT !.sz = h.sz - 1, !.data = siftDown(h.data, h.sz - 1, 1)]

EmergencyMaxHeap_pop(h) ==
    IF EmergencyMaxHeap_isEmpty(h)
    THEN h
    ELSE LET d1 == [h.data EXCEPT ![1] = h.data[h.sz]]
             n == h.sz - 1
         IN  [h EXCEPT !.sz = n, !.data = siftDown(d1, n, 1)]

(***************************************************************************)
(* Text helpers.                                                           *)
(***************************************************************************)
\* Field buffer sizes (char arrays, one byte is the terminating NUL).
ID_CAP == 16
NAME_CAP == 50
CONDITION_CAP == 30
SUPPLY_TYPE_CAP == 30
BATCH_CAP == 20
EMERG_PATIENT_CAP == 50
EMERG_TYPE_CAP == 40
PLATE_CAP == 16

Prefix(t, n) == IF Len(t) <= n THEN t ELSE SubSeq(t, 1, n)

\* strncpy(dst, src.c_str(), sizeof(dst) - 1) into a zeroed buffer.
strncpy(src, cap) == Prefix(src, cap - 1)

\* safe_getline(buf, cap) on the typed line: cin.getline stores at most
\* cap-1 characters; a longer line sets failbit, and the buffer is emptied.
safe_getline(typed, cap) == IF Len(typed) > cap - 1 THEN <<>> ELSE typed

Digits == <<"0", "1", "2", "3", "4", "5", "6", "7", "8", "9">>
IsDigit(c) == \E d \in 1..10 : Digits[d] = c
DigitVal(c) == (CHOOSE d \in 1..10 : Digits[d] = c) - 1

\* operator<<(int): decimal rendering, no separators.
RECURSIVE DecNat(_)
DecNat(n) == IF n < 10 THEN <<Digits[n + 1]>>
             ELSE Append(DecNat(n \div 10), Digits[(n % 10) + 1])

Dec(n) == IF n < 0 THEN <<"-">> \o DecNat(-n) ELSE DecNat(n)

RECURSIVE DropSpaces(_)
DropSpaces(t) == IF t # <<>> /\ Head(t) = " " THEN DropSpaces(Tail(t)) ELSE t

\* The leading run of digits of t, as a number (-1 when there is none).
RECURSIVE DigitsValue(_, _, _)
DigitsValue(t, acc, any) ==
    IF t # <<>> /\ IsDigit(Head(t))
    THEN DigitsValue(Tail(t), acc * 10 + DigitVal(Head(t)), TRUE)
    ELSE IF any THEN acc ELSE -1

\* num_get on the text that follows the skipped white space: an optional
\* sign and a run of digits.  (Numbers beyond the range of int, which make
\* the extraction fail, are not among the inputs.)
ParseInt(t) ==
    LET neg == t # <<>> /\ Head(t) = "-"
        body == IF t # <<>> /\ Head(t) \in {"-", "+"} THEN Tail(t) ELSE t
        v == DigitsValue(body, 0, FALSE)
    IN  IF v = -1 THEN [ok |-> FALSE, val |-> 0]
        ELSE [ok |-> TRUE, val |-> IF neg THEN -v ELSE v]

\* in >> n positioned at the start of line k: operator>> first skips white
\* space, newlines included, so blank lines are passed over; then it parses
\* a number.  in.ignore(max, '\n') then drops the rest of that line.
\* next is the line the stream stands at afterwards.
RECURSIVE ExtractInt(_, _)
ExtractInt(f, k) ==
    IF k > Len(f) THEN [ok |-> FALSE, val |-> 0, next |-> k]
    ELSE IF DropSpaces(f[k]) = <<>> THEN ExtractInt(f, k + 1)
         ELSE LET r == ParseInt(DropSpaces(f[k]))
              IN  [ok |-> r.ok, val |-> r.val, next |-> k + 1]

(***************************************************************************)
(* Persistence: what saveToFile writes once the file is open, and          *)
(* loadFromFile.  The load operators return the container and the line     *)
(* the stream stood at when the loop ended.                                *)
(***************************************************************************)
RECURSIVE PatientQueue_lines(_, _)
PatientQueue_lines(q, i) ==
    IF i >= q.count THEN <<>>
    ELSE LET p == q.data[(q.head + i) % MAX_PATIENTS]
         IN  <<p.id, p.name, p.condition>> \o PatientQueue_lines(q, i + 1)

\* A save that walks the array from slot 0 instead of from head.
PatientQueue_saveToFile_from_slot0(q) ==
    PatientQueue_lines([q EXCEPT !.head = 0], 0)

PatientQueue_saveToFile(q) == PatientQueue_lines(q, 0)

RECURSIVE PatientQueue_loadLoop(_, _, _)
PatientQueue_loadLoop(q, f, k) ==
    IF k > Len(f) THEN [c |-> q, pos |-> k]
    ELSE IF f[k] = <<>> THEN PatientQueue_loadLoop(q, f, k + 1)
    ELSE IF k + 1 > Len(f) THEN [c |-> q, pos |-> k + 1]
    ELSE IF k + 2 > Len(f) THEN [c |-> q, pos |-> k + 2]
    ELSE LET p == [id |-> strncpy(f[k], ID_CAP),
                   name |-> strncpy(f[k + 1], NAME_CAP),
                   condition |-> strncpy(f[k + 2], CONDITION_CAP)]
             r == PatientQueue_enqueue(q, p)
         IN  IF ~r.ret THEN [c |-> q, pos |-> k + 3]
             ELSE PatientQueue_loadLoop(r.q, f, k + 3)

\* A restore that reads the file on top of what the queue holds.
PatientQueue_loadFromFile_merge(q, f) ==
    IF f = NoFile THEN [c |-> PatientQueue_clear(q), pos |-> 0]
    ELSE PatientQueue_loadLoop(q, f.lines, 1)

PatientQueue_loadFromFile(q, f) ==
    IF f = NoFile THEN [c |-> PatientQueue_clear(q), pos |-> 0]
    ELSE PatientQueue_loadLoop(PatientQueue_clear(q), f.lines, 1)

RECURSIVE AmbulanceCQueue_lines(_, _)
AmbulanceCQueue_lines(q, i) ==
    IF i >= q.count THEN <<>>
    ELSE <<q.data[(q.head + i) % MAX_AMBULANCES].plate>>
         \o AmbulanceCQueue_lines(q, i + 1)

AmbulanceCQueue_saveToFile(q) == AmbulanceCQueue_lines(q, 0)

RECURSIVE AmbulanceCQueue_loadLoop(_, _, _)
AmbulanceCQueue_loadLoop(q, f, k) ==
    IF k > Len(f) THEN [c |-> q, pos |-> k]
    ELSE IF f[k] = <<>> THEN AmbulanceCQueue_loadLoop(q, f, k + 1)
    ELSE LET r == AmbulanceCQueue_enqueue(q, [plate |-> strncpy(f[k], PLATE_CAP)])
         IN  IF ~r.ret THEN [c |-> q, pos |-> k + 1]
             ELSE AmbulanceCQueue_loadLoop(r.q, f, k + 1)

AmbulanceCQueue_loadFromFile(q, f) ==
    IF f = NoFile THEN [c |-> AmbulanceCQueue_clear(q), pos |-> 0]
    ELSE AmbulanceCQueue_loadLoop(AmbulanceCQueue_clear(q), f.lines, 1)

RECURSIVE SupplyStack_lines(_, _)
SupplyStack_lines(s, i) ==
    IF i > s.top THEN <<>>
    ELSE <<s.data[i].type, Dec(s.data[i].quantity), s.data[i].batch>>
         \o SupplyStack_lines(s, i + 1)

SupplyStack_saveToFile(s) == SupplyStack_lines(s, 0)

\* A load loop that passes over a record whose quantity is not a number and
\* goes on with the next record.
RECURSIVE SupplyStack_loadLoop_skip_bad(_, _, _)
SupplyStack_loadLoop_skip_bad(s, f, k) ==
    IF k > Len(f) THEN [c |-> s, pos |-> k]
    ELSE IF f[k] = <<>> THEN SupplyStack_loadLoop_skip_bad(s, f, k + 1)
    ELSE LET qty == ExtractInt(f, k + 1)
         IN  IF ~qty.ok THEN SupplyStack_loadLoop_skip_bad(s, f, qty.next + 1)
             ELSE IF qty.next > Len(f) THEN [c |-> s, pos |-> qty.next]
             ELSE LET x == [type |-> strncpy(f[k], SUPPLY_TYPE_CAP),
                            quantity |-> qty.val,
                            batch |-> strncpy(f[qty.next], BATCH_CAP)]
                      r == SupplyStack_push(s, x)
                  IN  IF ~r.ret THEN [c |-> s, pos |-> qty.next + 1]
                      ELSE SupplyStack_loadLoop_skip_bad(r.s, f, qty.next + 1)

RECURSIVE SupplyStack_loadLoop(_, _, _)
SupplyStack_loadLoop(s, f, k) ==
    IF k > Len(f) THEN [c |-> s, pos |-> k]
    ELSE IF f[k] = <<>> THEN SupplyStack_loadLoop(s, f, k + 1)
    ELSE LET qty == ExtractInt(f, k + 1)
         IN  IF ~qty.ok THEN [c |-> s, pos |-> qty.next]
             ELSE IF qty.next > Len(f) THEN [c |-> s, pos |-> qty.next]
             ELSE LET x == [type |-> strncpy(f[k], SUPPLY_TYPE_CAP),
                            quantity |-> qty.val,
                            batch |-> strncpy(f[qty.next], BATCH_CAP)]
                      r == SupplyStack_push(s, x)
                  IN  IF ~r.ret THEN [c |-> s, pos |-> qty.next + 1]
                      ELSE SupplyStack_loadLoop(r.s, f, qty.next + 1)

SupplyStack_loadFromFile(s, f) ==
    IF f = NoFile THEN [c |-> SupplyStack_clear(s), pos |-> 0]
    ELSE SupplyStack_loadLoop(SupplyStack_clear(s), f.lines, 1)

RECURSIVE EmergencyMaxHeap_lines(_, _)
EmergencyMaxHeap_lines(h, i) ==
    IF i > h.sz THEN <<>>
    ELSE <<h.data[i].patient, h.data[i].type, Dec(h.data[i].priority)>>
         \o EmergencyMaxHeap_lines(h, i + 1)

\* A save that writes the records from data[sz] down to data[1].
RECURSIVE EmergencyMaxHeap_lines_last_first(_, _)
EmergencyMaxHeap_lines_last_first(h, i) ==
    IF i < 1 THEN <<>>
    ELSE <<h.data[i].patient, h.data[i].type, Dec(h.data[i].priority)>>
         \o EmergencyMaxHeap_lines_last_first(h, i - 1)

EmergencyMaxHeap_saveToFile_last_first(h) ==
    EmergencyMaxHeap_lines_last_first(h, h.sz)

EmergencyMaxHeap_saveToFile(h) == EmergencyMaxHeap_lines(h, 1)

\* push(e) is called without looking at isFull: on a full heap it does
\* nothing and the loop reads on.
RECURSIVE EmergencyMaxHeap_loadLoop(_, _, _)
EmergencyMaxHeap_loadLoop(h, f, k) ==
    IF k > Len(f) THEN [c |-> h, pos |-> k]
    ELSE IF f[k] = <<>> THEN EmergencyMaxHeap_loadLoop(h, f, k + 1)
    ELSE IF k + 1 > Len(f) THEN [c |-> h, pos |-> k + 1]
    ELSE LET prio == ExtractInt(f, k + 2)
         IN  IF ~prio.ok THEN [c |-> h, pos |-> prio.next]
             ELSE LET e == [patient |-> strncpy(f[k], EMERG_PATIENT_CAP),
                            type |-> strncpy(f[k + 1], EMERG_TYPE_CAP),
                            priority |-> prio.val]
                  IN  EmergencyMaxHeap_loadLoop(EmergencyMaxHeap_push(h, e),
                                                f, prio.next)

\* A load that returns without clear() when the file cannot be opened.
EmergencyMaxHeap_loadFromFile_keep(h, f) ==
    IF f = NoFile THEN [c |-> h, pos |-> 0]
    ELSE EmergencyMaxHeap_loadLoop(EmergencyMaxHeap_clear(h), f.lines, 1)

EmergencyMaxHeap_loadFromFile(h, f) ==
    IF f = NoFile THEN [c |-> EmergencyMaxHeap_clear(h), pos |-> 0]
    ELSE EmergencyMaxHeap_loadLoop(EmergencyMaxHeap_clear(h), f.lines, 1)

(***************************************************************************)
(* Inputs.                                                                 *)
(***************************************************************************)
\* What the user types at the three prompts of ui_admit_patient.
PatientTyped ==
    { << <<"P", "1">>, <<"a">>, <<"f">> >>,
      << <<"P", "2">>, <<"b">>, <<>> >>,
      << <<>>, <<"a">>, <<"f">> >> }

\* Records handed to PatientQueue::enqueue directly.
PatientRecs ==
    { [id |-> t[1], name |-> t[2], condition |-> t[3]] : t \in PatientTyped }

\* Records handed to the enqueue of hospital.cpp: the same and one with an
\* empty name.
HospitalRecs ==
    PatientRecs \cup { [id |-> <<"P", "1">>, name |-> <<>>, condition |-> <<"f">>] }

\* What the user types in ui_add_supply: type, quantity (>= 1), batch.
SupplyTyped ==
    { << <<"M">>, 5, <<"x">> >>,
      << <<"G">>, 12, <<"y">> >>,
      << <<"M">>, 7, <<"z">> >> }

\* Records pushed by direct calls.
SupplyRecs ==
    { [type |-> <<"G">>, quantity |-> 12, batch |-> <<"y">>],
      [type |-> <<"M">>, quantity |-> 7, batch |-> <<"z">>] }

\* Keys looked for by the keyed removal.
SupplyKeys == { <<"M">>, <<"G">>, <<"Q">> }

\* What the user types in ui_log_emergency: patient, type, priority.
EmergTyped ==
    { << <<"a">>, <<"h">>, 5 >>,
      << <<"b">>, <<"h">>, 9 >>,
      << <<"c">>, <<"k">>, 9 >>,
      << <<"d">>, <<"k">>, -3 >> }

EmergRecs ==
    { [patient |-> <<"a">>, type |-> <<"h">>, priority |-> 5],
      [patient |-> <<"b">>, type |-> <<"h">>, priority |-> 9],
      [patient |-> <<"c">>, type |-> <<"k">>, priority |-> 9],
      [patient |-> <<"d">>, type |-> <<"k">>, priority |-> 3] }

\* What the user types in ui_register_ambulance.
AmbTyped == { <<"A">>, <<"B">>, <<"C">> }

AmbRecs == { [plate |-> t] : t \in AmbTyped }

\* A text of n characters c.
Fill(n, c) == [i \in 1..n |-> c]

\* Typed lines one character longer than the field holds: an id of 16 and
\* a condition of 30 characters, a supply type of 30, a plate of 16.
PatientTypedLong ==
    { << Fill(ID_CAP - 1, "i") \o <<"x">>, <<"a">>, <<"f">> >>,
      << <<"P", "2">>, <<"b">>, Fill(CONDITION_CAP - 1, "c") \o <<"x">> >> }

SupplyTypedLong ==
    { << Fill(SUPPLY_TYPE_CAP - 1, "t") \o <<"x">>, 5, <<"x">> >> }

AmbTypedLong == { Fill(PLATE_CAP - 1, "p") \o <<"x">> }

RECURSIVE Repeat(_, _)
Repeat(ls, n) == IF n <= 0 THEN <<>> ELSE ls \o Repeat(ls, n - 1)

\* A file with more records than the component can hold.
OverfullLines(r) ==
    CASE r = "patients" -> Repeat(<< <<"P", "1">>, <<"a">>, <<"f">> >>, MAX_PATIENTS + 1)
      [] r = "supplies" -> Repeat(<< <<"M">>, <<"7">>, <<"z">> >>, MAX_SUPPLIES + 1)
      [] r = "emerg" -> Repeat(<< <<"b">>, <<"h">>, <<"9">>, <<"a">>, <<"h">>, <<"5">> >>,
                               MAX_EMERG)
      [] r = "amb" -> Repeat(<< <<"C">>, <<"A">> >>, MAX_AMBULANCES)

OverfullFile(r) == TextFile(OverfullLines(r))

\* Files found at start-up: none, one written by an earlier run, one with
\* more records than fit, and damaged ones.
PatientFiles ==
    { NoFile,
      TextFile(<< <<"P", "1">>, <<"a">>, <<"f">>, <<"P", "2">>, <<"b">>, <<"g">> >>),
      OverfullFile("patients"),
      TextFile(<< <<>>, <<"P", "2">>, <<"b">>, <<"g">>, <<"P", "1">>, <<"a">> >>) }

SupplyFiles ==
    { NoFile,
      TextFile(<< <<"M">>, <<"5">>, <<"x">>, <<"G">>, <<"1", "2">>, <<"y">> >>),
      OverfullFile("supplies"),
      TextFile(<< <<"G">>, <<"1", "2">>, <<"y">>, <<"M">>, <<"q">>, <<"x">> >>) }

EmergFiles ==
    { NoFile,
      TextFile(<< <<"a">>, <<"h">>, <<"5">>, <<"c">>, <<"k">>, <<"9">>,
         <<"b">>, <<"h">>, <<"9">> >>),
      OverfullFile("emerg"),
      TextFile(<< <<"a">>, <<"h">>, <<"5">>, <<"c">>, <<"k">> >>) }

AmbFiles ==
    { NoFile,
      TextFile(<< <<"A">>, <<"B">> >>),
      OverfullFile("amb"),
      TextFile(<< <<>>, <<"B">>, <<>>, <<"C">> >>) }

RECURSIVE Flatten(_)
Flatten(ss) == IF ss = <<>> THEN <<>> ELSE Head(ss) \o Flatten(Tail(ss))

\* Files cut short or damaged: the lines of the records in kept, then the
\* lines of a record that lacks a line at the end of the file or whose
\* number is not one, then what follows it.
TruncatedCases(r) ==
    CASE r = "patients" ->
           { [kept |-> << [id |-> <<"P", "2">>, name |-> <<"b">>, condition |-> <<"g">>] >>,
              bad |-> << <<"P", "1">>, <<"a">> >>, rest |-> <<>>],
             [kept |-> << [id |-> <<"P", "1">>, name |-> <<"a">>, condition |-> <<"f">>] >>,
              bad |-> << <<"P", "2">> >>, rest |-> <<>>] }
      [] r = "supplies" ->
           { [kept |-> << [type |-> <<"G">>, quantity |-> 12, batch |-> <<"y">>] >>,
              bad |-> << <<"M">>, <<"q">>, <<"x">> >>, rest |-> rest]
               : rest \in { <<>>, << <<"M">>, <<"7">>, <<"z">> >> } }
           \cup
           { [kept |-> << [type |-> <<"G">>, quantity |-> 12, batch |-> <<"y">>] >>,
              bad |-> << <<"M">>, <<"7">> >>, rest |-> <<>>] }
      [] r = "emerg" ->
           { [kept |-> << [patient |-> <<"b">>, type |-> <<"h">>, priority |-> 9],
                          [patient |-> <<"a">>, type |-> <<"h">>, priority |-> 5] >>,
              bad |-> << <<"c">>, <<"k">>, <<"x">> >>,
              rest |-> << <<"b">>, <<"h">>, <<"9">> >>],
             [kept |-> << [patient |-> <<"a">>, type |-> <<"h">>, priority |-> 5] >>,
              bad |-> << <<"c">>, <<"k">> >>, rest |-> <<>>] }
      [] r = "amb" -> {}

RecordLines(r, x) ==
    CASE r = "patients" -> <<x.id, x.name, x.condition>>
      [] r = "supplies" -> <<x.type, Dec(x.quantity), x.batch>>
      [] r = "emerg" -> <<x.patient, x.type, Dec(x.priority)>>
      [] r = "amb" -> <<x.plate>>

TruncatedFile(r, d) ==
    TextFile(Flatten([i \in 1..Len(d.kept) |-> RecordLines(r, d.kept[i])])
               \o d.bad \o d.rest)

\* Files with one blank line: the lines of the records in pre, then the
\* lines mid (a lone blank line where a record would start, or the three
\* lines of a record one of which, not the first, is blank), then the lines
\* of the records in post.  midrec is the record the lines of mid spell when
\* a blank line stands for an empty field (none for the lone blank line);
\* number tells that the blank line is where the number is expected, and the
\* number of midrec then stands for whatever an empty number is.
BlankCases(r) ==
    CASE r = "patients" ->
           { [pre |-> << [id |-> <<"P", "2">>, name |-> <<"b">>, condition |-> <<"g">>] >>,
              mid |-> << <<>> >>, midrec |-> <<>>, number |-> FALSE,
              post |-> << [id |-> <<"P", "1">>, name |-> <<"a">>, condition |-> <<"f">>] >>],
             [pre |-> << [id |-> <<"P", "2">>, name |-> <<"b">>, condition |-> <<"g">>] >>,
              mid |-> << <<"P", "1">>, <<>>, <<"f">> >>,
              midrec |-> << [id |-> <<"P", "1">>, name |-> <<>>, condition |-> <<"f">>] >>,
              number |-> FALSE,
              post |-> <<>>],
             [pre |-> <<>>,
              mid |-> << <<"P", "1">>, <<"a">>, <<>> >>,
              midrec |-> << [id |-> <<"P", "1">>, name |-> <<"a">>, condition |-> <<>>] >>,
              number |-> FALSE,
              post |-> << [id |-> <<"P", "2">>, name |-> <<"b">>, condition |-> <<"g">>] >>] }
      [] r = "supplies" ->
           { [pre |-> << [type |-> <<"G">>, quantity |-> 12, batch |-> <<"y">>] >>,
              mid |-> << <<>> >>, midrec |-> <<>>, number |-> FALSE,
              post |-> << [type |-> <<"M">>, quantity |-> 7, batch |-> <<"z">>] >>],
             [pre |-> <<>>,
              mid |-> << <<"G">>, <<"1", "2">>, <<>> >>,
              midrec |-> << [type |-> <<"G">>, quantity |-> 12, batch |-> <<>>] >>,
              number |-> FALSE,
              post |-> << [type |-> <<"M">>, quantity |-> 7, batch |-> <<"z">>] >>] }
           \cup
           { [pre |-> << [type |-> <<"G">>, quantity |-> 12, batch |-> <<"y">>] >>,
              mid |-> << <<"M">>, <<>>, <<"z">> >>,
              midrec |-> << [type |-> <<"M">>, quantity |-> 0, batch |-> <<"z">>] >>,
              number |-> TRUE,
              post |-> post]
               : post \in { <<>>, << [type |-> <<"M">>, quantity |-> 5, batch |-> <<"x">>] >> } }
      [] r = "emerg" ->
           { [pre |-> << [patient |-> <<"b">>, type |-> <<"h">>, priority |-> 9] >>,
              mid |-> << <<>> >>, midrec |-> <<>>, number |-> FALSE,
              post |-> << [patient |-> <<"a">>, type |-> <<"h">>, priority |-> 5] >>],
             [pre |-> << [patient |-> <<"a">>, type |-> <<"h">>, priority |-> 5] >>,
              mid |-> << <<"c">>, <<>>, <<"9">> >>,
              midrec |-> << [patient |-> <<"c">>, type |-> <<>>, priority |-> 9] >>,
              number |-> FALSE,
              post |-> <<>>] }
           \cup
           { [pre |-> << [patient |-> <<"a">>, type |-> <<"h">>, priority |-> 5] >>,
              mid |-> << <<"c">>, <<"k">>, <<>> >>,
              midrec |-> << [patient |-> <<"c">>, type |-> <<"k">>, priority |-> 0] >>,
              number |-> TRUE,
              post |-> post]
               : post \in { <<>>, << [patient |-> <<"b">>, type |-> <<"h">>, priority |-> 9] >> } }
      [] r = "amb" ->
           { [pre |-> << [plate |-> <<"A">>] >>,
              mid |-> << <<>> >>, midrec |-> <<>>, number |-> FALSE,
              post |-> << [plate |-> <<"B">>] >>] }

BlankFile(r, d) ==
    TextFile(Flatten([i \in 1..Len(d.pre) |-> RecordLines(r, d.pre[i])])
               \o d.mid
               \o Flatten([i \in 1..Len(d.post) |-> RecordLines(r, d.post[i])]))

\* A file of two records whose text lines are one character longer than
\* the fields hold and differ in that last character only.
LongLines(r, last) ==
    CASE r = "patients" ->
           << Fill(ID_CAP - 1, "i") \o last, Fill(NAME_CAP - 1, "n") \o last,
              Fill(CONDITION_CAP - 1, "c") \o last >>
      [] r = "supplies" ->
           << Fill(SUPPLY_TYPE_CAP - 1, "t") \o last, <<"7">>,
              Fill(BATCH_CAP - 1, "b") \o last >>
      [] r = "emerg" ->
           << Fill(EMERG_PATIENT_CAP - 1, "s") \o last,
              Fill(EMERG_TYPE_CAP - 1, "k") \o last, <<"5">> >>
      [] r = "amb" -> << Fill(PLATE_CAP - 1, "p") \o last >>

LongFile(r) == TextFile(LongLines(r, <<"x">>) \o LongLines(r, <<"y">>))

InitialFiles(r) ==
    (CASE r = "patients" -> PatientFiles
       [] r = "supplies" -> SupplyFiles
       [] r = "emerg" -> EmergFiles
       [] r = "amb" -> AmbFiles)
    \cup { TruncatedFile(r, d) : d \in TruncatedCases(r) }
    \cup { BlankFile(r, d) : d \in BlankCases(r) }
    \cup (IF r = "emerg" THEN {} ELSE { LongFile(r) })

NoHist == [on |-> FALSE, ins |-> <<>>, outs |-> <<>>, rot |-> 0, base |-> <<>>]

\* The records of the ambulance queue in rotation order, from head.
AmbOrder(q) ==
    [i \in 1..q.count |-> q.data[(q.head + i - 1) % MAX_AMBULANCES]]

ZeroOut(r) ==
    CASE r = "patients" -> ZeroPatient
      [] r = "supplies" -> ZeroSupply
      [] r = "emerg" -> ZeroEmergencyCase
      [] r = "amb" -> ZeroAmbulance

(***************************************************************************)
(* Initial states: the globals as constructed, one component chosen for    *)
(* the session.                                                            *)
(***************************************************************************)
Constructed ==
    /\ gPatients = PatientQueue_new
    /\ gSupplies = SupplyStack_new
    /\ gEmerg = EmergencyMaxHeap_new
    /\ gAmb = AmbulanceCQueue_new
    /\ op = "start"
    /\ ret = "none"
    /\ msg = ""
    /\ saved = "none"
    /\ failures = 0
    /\ hist = NoHist
    /\ shown = <<>>
    /\ loop_i = 0

Init ==
    /\ Constructed
    /\ role \in Roles
    /\ out = ZeroOut(role)
    /\ \E f \in InitialFiles(role) :
          files = [r \in Roles |-> IF r = role THEN f ELSE NoFile]

InitAPI ==
    /\ Constructed
    /\ role \in Roles
    /\ out = ZeroOut(role)
    /\ \E f \in {NoFile, OverfullFile(role)} :
          files = [r \in Roles |-> IF r = role THEN f ELSE NoFile]

(***************************************************************************)
(* saveToFile as a step: the ofstream either opens (the file is replaced   *)
(* by the lines written) or does not (the file stays as it was).           *)
(***************************************************************************)
\* Saves that all write the one file, the patients'.
Save_one_file(r, lines) ==
    \/ /\ files' = [files EXCEPT !["patients"] = TextFile(lines)]
       /\ saved' = "ok"
       /\ failures' = failures
    \/ /\ failures < MaxSaveFailures
       /\ files' = files
       /\ saved' = "failed"
       /\ failures' = failures + 1

Save(r, lines) ==
    \/ /\ files' = [files EXCEPT ![r] = TextFile(lines)]
       /\ saved' = "ok"
       /\ failures' = failures
    \/ /\ failures < MaxSaveFailures
       /\ files' = files
       /\ saved' = "failed"
       /\ failures' = failures + 1

NoSave == /\ files' = files /\ saved' = "none" /\ failures' = failures

Bool(b) == IF b THEN "true" ELSE "false"

(***************************************************************************)
(* History of a run of direct calls: it starts when a record is put into   *)
(* an empty queue (or pushed on the stack, whatever it holds), goes on     *)
(* while records are put in and then while records are taken out, and is   *)
(* dropped by anything else.  A run of rotateOnce calls with nothing in    *)
(* between is counted in rot, with the order before its first call in      *)
(* base; the count starts again once the run is as long as the queue.      *)
(***************************************************************************)
HistInsert(mayStart, ok, x) ==
    IF ~ok THEN [hist EXCEPT !.rot = 0, !.base = <<>>]
    ELSE IF hist.on /\ hist.outs = <<>>
         THEN [hist EXCEPT !.ins = Append(@, x)]
         ELSE IF mayStart THEN [NoHist EXCEPT !.on = TRUE, !.ins = <<x>>]
              ELSE NoHist

HistRemove(ok, x) ==
    IF ~ok THEN [hist EXCEPT !.rot = 0, !.base = <<>>]
    ELSE IF hist.on THEN [hist EXCEPT !.outs = Append(@, x)]
         ELSE NoHist

HistRotate(q) ==
    IF hist.rot > 0 /\ hist.rot < q.count
    THEN [NoHist EXCEPT !.rot = hist.rot + 1, !.base = hist.base]
    ELSE [NoHist EXCEPT !.rot = 1, !.base = AmbOrder(q)]

(***************************************************************************)
(* Role 1: patients.                                                       *)
(***************************************************************************)
\* gPatients.enqueue(p) called directly.
Call_PatientQueue_enqueue(p) ==
    /\ role = "patients"
    /\ LET r == PatientQueue_enqueue(gPatients, p)
       IN  /\ gPatients' = r.q
           /\ ret' = Bool(r.ret)
    /\ op' = "PatientQueue::enqueue"
    /\ out' = out
    /\ NoSave
    /\ hist' = HistInsert(PatientQueue_isEmpty(gPatients), PatientQueue_enqueue(gPatients, p).ret, p)
    /\ msg' = ""
    /\ shown' = <<>>
    /\ loop_i' = 0
    /\ UNCHANGED <<role, gSupplies, gEmerg, gAmb>>

\* gPatients.enqueue(p) of hospital.cpp called directly.
hospital_Call_PatientQueue_enqueue(p) ==
    /\ role = "patients"
    /\ LET r == hospital_PatientQueue_enqueue(gPatients, p)
       IN  /\ gPatients' = r.q
           /\ ret' = Bool(r.ret)
           /\ hist' = HistInsert(PatientQueue_isEmpty(gPatients), r.ret, p)
    /\ op' = "hospital.cpp PatientQueue::enqueue"
    /\ out' = out
    /\ NoSave
    /\ msg' = ""
    /\ shown' = <<>>
    /\ loop_i' = 0
    /\ UNCHANGED <<role, gSupplies, gEmerg, gAmb>>

\* gPatients.dequeue(out) called directly.
Call_PatientQueue_dequeue ==
    /\ role = "patients"
    /\ LET r == PatientQueue_dequeue(gPatients, out)
       IN  /\ gPatients' = r.q
           /\ ret' = Bool(r.ret)
           /\ out' = r.out
    /\ op' = "PatientQueue::dequeue"
    /\ NoSave
    /\ hist' = HistRemove(~PatientQueue_isEmpty(gPatients), PatientQueue_dequeue(gPatients, out).out)
    /\ msg' = ""
    /\ shown' = <<>>
    /\ loop_i' = 0
    /\ UNCHANGED <<role, gSupplies, gEmerg, gAmb>>

\* gPatients.print() called directly (menu option 3).
Call_PatientQueue_print ==
    /\ role = "patients"
    /\ gPatients' = gPatients
    /\ op' = "PatientQueue::print"
    /\ ret' = "void"
    /\ out' = out
    /\ NoSave
    /\ hist' = NoHist
    /\ msg' = IF PatientQueue_isEmpty(gPatients) THEN "No patients waiting." ELSE ""
    /\ shown' = PatientQueue_print(gPatients, 0)
    /\ loop_i' = 0
    /\ UNCHANGED <<role, gSupplies, gEmerg, gAmb>>

load_patients_from_file ==
    /\ role = "patients"
    /\ gPatients' = PatientQueue_loadFromFile(gPatients, files["patients"]).c
    /\ op' = "load_patients_from_file"
    /\ ret' = "void"
    /\ out' = ZeroPatient
    /\ NoSave
    /\ hist' = NoHist
    /\ msg' = IF files["patients"] = NoFile THEN "not found" ELSE "loaded"
    /\ shown' = <<>>
    /\ loop_i' = 0
    /\ UNCHANGED <<role, gSupplies, gEmerg, gAmb>>

\* The handler undoing its enqueue when the save cannot open the file.
ui_admit_patient_rollback(t) ==
    /\ role = "patients"
    /\ op' = "ui_admit_patient"
    /\ out' = ZeroPatient
    /\ IF PatientQueue_isFull(gPatients)
       THEN /\ gPatients' = gPatients
            /\ msg' = "full"
            /\ NoSave
       ELSE LET p == [id |-> safe_getline(t[1], ID_CAP),
                      name |-> safe_getline(t[2], NAME_CAP),
                      condition |-> safe_getline(t[3], CONDITION_CAP)]
                r == PatientQueue_enqueue(gPatients, p)
            IN  /\ msg' = "admitted"
                /\ \/ /\ gPatients' = r.q
                      /\ files' = [files EXCEPT !["patients"] =
                                      TextFile(PatientQueue_saveToFile(r.q))]
                      /\ saved' = "ok"
                      /\ failures' = failures
                   \/ /\ failures < MaxSaveFailures
                      /\ gPatients' = gPatients
                      /\ files' = files
                      /\ saved' = "failed"
                      /\ failures' = failures + 1
    /\ hist' = NoHist
    /\ ret' = "void"
    /\ shown' = <<>>
    /\ loop_i' = 0
    /\ UNCHANGED <<role, gSupplies, gEmerg, gAmb>>

ui_admit_patient(t) ==
    /\ role = "patients"
    /\ op' = "ui_admit_patient"
    /\ out' = ZeroPatient
    /\ IF PatientQueue_isFull(gPatients)
       THEN /\ gPatients' = gPatients
            /\ msg' = "full"
            /\ NoSave
       ELSE LET p == [id |-> safe_getline(t[1], ID_CAP),
                      name |-> safe_getline(t[2], NAME_CAP),
                      condition |-> safe_getline(t[3], CONDITION_CAP)]
                r == PatientQueue_enqueue(gPatients, p)
            IN  /\ gPatients' = r.q
                /\ IF r.ret
                   THEN msg' = "admitted" /\ Save("patients", PatientQueue_saveToFile(r.q))
                   ELSE msg' = "failed" /\ NoSave
    /\ hist' = NoHist
    /\ ret' = "void"
    /\ shown' = <<>>
    /\ loop_i' = 0
    /\ UNCHANGED <<role, gSupplies, gEmerg, gAmb>>

ui_discharge_patient ==
    /\ role = "patients"
    /\ op' = "ui_discharge_patient"
    /\ LET r == PatientQueue_dequeue(gPatients, ZeroPatient)
       IN  /\ gPatients' = r.q
           /\ out' = r.out
           /\ IF r.ret
              THEN msg' = "discharged" /\ Save("patients", PatientQueue_saveToFile(r.q))
              ELSE msg' = "empty" /\ NoSave
    /\ hist' = NoHist
    /\ ret' = "void"
    /\ shown' = <<>>
    /\ loop_i' = 0
    /\ UNCHANGED <<role, gSupplies, gEmerg, gAmb>>

(***************************************************************************)
(* Role 4: ambulances.                                                     *)
(***************************************************************************)
Call_AmbulanceCQueue_enqueue(a) ==
    /\ role = "amb"
    /\ LET r == AmbulanceCQueue_enqueue(gAmb, a)
       IN  /\ gAmb' = r.q
           /\ ret' = Bool(r.ret)
    /\ op' = "AmbulanceCQueue::enqueue"
    /\ out' = out
    /\ NoSave
    /\ hist' = HistInsert(AmbulanceCQueue_isEmpty(gAmb), AmbulanceCQueue_enqueue(gAmb, a).ret, a)
    /\ msg' = ""
    /\ shown' = <<>>
    /\ loop_i' = 0
    /\ UNCHANGED <<role, gPatients, gSupplies, gEmerg>>

Call_AmbulanceCQueue_dequeue ==
    /\ role = "amb"
    /\ LET r == AmbulanceCQueue_dequeue(gAmb, out)
       IN  /\ gAmb' = r.q
           /\ ret' = Bool(r.ret)
           /\ out' = r.out
    /\ op' = "AmbulanceCQueue::dequeue"
    /\ NoSave
    /\ hist' = HistRemove(~AmbulanceCQueue_isEmpty(gAmb), AmbulanceCQueue_dequeue(gAmb, out).out)
    /\ msg' = ""
    /\ shown' = <<>>
    /\ loop_i' = 0
    /\ UNCHANGED <<role, gPatients, gSupplies, gEmerg>>

Call_AmbulanceCQueue_rotateOnce ==
    /\ role = "amb"
    /\ gAmb' = AmbulanceCQueue_rotateOnce(gAmb)
    /\ op' = "AmbulanceCQueue::rotateOnce"
    /\ ret' = "void"
    /\ out' = out
    /\ NoSave
    /\ hist' = HistRotate(gAmb)
    /\ msg' = ""
    /\ shown' = <<>>
    /\ loop_i' = 0
    /\ UNCHANGED <<role, gPatients, gSupplies, gEmerg>>

\* gAmb.print() called directly (menu option 3).
Call_AmbulanceCQueue_print ==
    /\ role = "amb"
    /\ gAmb' = gAmb
    /\ op' = "AmbulanceCQueue::print"
    /\ ret' = "void"
    /\ out' = out
    /\ NoSave
    /\ hist' = NoHist
    /\ msg' = IF AmbulanceCQueue_isEmpty(gAmb) THEN "No ambulances registered." ELSE ""
    /\ shown' = AmbulanceCQueue_print(gAmb, 0)
    /\ loop_i' = 0
    /\ UNCHANGED <<role, gPatients, gSupplies, gEmerg>>

load_ambulances_from_file ==
    /\ role = "amb"
    /\ gAmb' = AmbulanceCQueue_loadFromFile(gAmb, files["amb"]).c
    /\ op' = "load_ambulances_from_file"
    /\ ret' = "void"
    /\ out' = ZeroAmbulance
    /\ NoSave
    /\ hist' = NoHist
    /\ msg' = IF files["amb"] = NoFile THEN "not found" ELSE "loaded"
    /\ shown' = <<>>
    /\ loop_i' = 0
    /\ UNCHANGED <<role, gPatients, gSupplies, gEmerg>>

ui_register_ambulance(t) ==
    /\ role = "amb"
    /\ op' = "ui_register_ambulance"
    /\ out' = ZeroAmbulance
    /\ IF AmbulanceCQueue_isFull(gAmb)
       THEN /\ gAmb' = gAmb
            /\ msg' = "full"
            /\ NoSave
       ELSE LET r == AmbulanceCQueue_enqueue(gAmb, [plate |-> safe_getline(t, PLATE_CAP)])
            IN  /\ gAmb' = r.q
                /\ IF r.ret
                   THEN msg' = "added" /\ Save("amb", AmbulanceCQueue_saveToFile(r.q))
                   ELSE msg' = "failed" /\ NoSave
    /\ hist' = NoHist
    /\ ret' = "void"
    /\ shown' = <<>>
    /\ loop_i' = 0
    /\ UNCHANGED <<role, gPatients, gSupplies, gEmerg>>

ui_rotate_shift ==
    /\ role = "amb"
    /\ op' = "ui_rotate_shift"
    /\ out' = ZeroAmbulance
    /\ IF AmbulanceCQueue_isEmpty(gAmb)
       THEN /\ gAmb' = gAmb
            /\ msg' = "empty"
            /\ NoSave
       ELSE LET q == AmbulanceCQueue_rotateOnce(gAmb)
            IN  /\ gAmb' = q
                /\ msg' = "rotated"
                /\ Save("amb", AmbulanceCQueue_saveToFile(q))
    /\ hist' = NoHist
    /\ ret' = "void"
    /\ shown' = <<>>
    /\ loop_i' = 0
    /\ UNCHANGED <<role, gPatients, gSupplies, gEmerg>>

(***************************************************************************)
(* Role 2: supplies.                                                       *)
(***************************************************************************)
\* A listing that copies one character less of each type than the field
\* can hold.
RECURSIVE UniqueTypes_short_copy(_, _, _)
UniqueTypes_short_copy(s, i, types) ==
    IF i > s.top THEN types
    ELSE IF \E j \in 1..Len(types) : s.data[i].type = types[j]
         THEN UniqueTypes_short_copy(s, i + 1, types)
         ELSE UniqueTypes_short_copy(s, i + 1,
                  Append(types, strncpy(s.data[i].type, SUPPLY_TYPE_CAP - 1)))

\* Step 1 of ui_use_supply_by_type: the distinct types held, in order of
\* first appearance from the bottom of the stack.
RECURSIVE UniqueTypes(_, _, _)
UniqueTypes(s, i, types) ==
    IF i > s.top THEN types
    ELSE IF \E j \in 1..Len(types) : s.data[i].type = types[j]
         THEN UniqueTypes(s, i + 1, types)
         ELSE UniqueTypes(s, i + 1,
                          Append(types, strncpy(s.data[i].type, SUPPLY_TYPE_CAP)))

\* A search that takes the match nearest the bottom.
findFromBottom(s, wanted, i) ==
    IF \E j \in 0..i : s.data[j].type = wanted
    THEN CHOOSE j \in 0..i :
             /\ s.data[j].type = wanted
             /\ \A m \in 0..(j - 1) : s.data[m].type # wanted
    ELSE -1

\* Step 4: search from the top down for the first record of the type.
RECURSIVE findFromTop(_, _, _)
findFromTop(s, wanted, i) ==
    IF i < 0 THEN -1
    ELSE IF s.data[i].type = wanted THEN i
         ELSE findFromTop(s, wanted, i - 1)

\* Step 5: for (i = index; i < top; ++i) data[i] = data[i + 1];
RECURSIVE shiftDown(_, _, _)
shiftDown(data, i, top) ==
    IF i < top THEN shiftDown([data EXCEPT ![i] = data[i + 1]], i + 1, top)
    ELSE data

\* A removal that falls back to the top record when no type matches.
useMostRecentOrTop(s, wanted) ==
    LET found == findFromTop(s, wanted, s.top)
        index == IF found = -1 THEN s.top ELSE found
    IN  IF index = -1
        THEN [s |-> s, msg |-> "type not found", out |-> ZeroSupply]
        ELSE [s |-> [s EXCEPT !.data = shiftDown(s.data, index, s.top),
                              !.top = s.top - 1],
              msg |-> "used", out |-> s.data[index]]

\* Steps 4 and 5 for a wanted type.
useMostRecentOfType(s, wanted) ==
    LET index == findFromTop(s, wanted, s.top)
    IN  IF index = -1
        THEN [s |-> s, msg |-> "type not found", out |-> ZeroSupply]
        ELSE [s |-> [s EXCEPT !.data = shiftDown(s.data, index, s.top),
                              !.top = s.top - 1],
              msg |-> "used", out |-> s.data[index]]

Call_SupplyStack_push(x) ==
    /\ role = "supplies"
    /\ LET r == SupplyStack_push(gSupplies, x)
       IN  /\ gSupplies' = r.s
           /\ ret' = Bool(r.ret)
    /\ op' = "SupplyStack::push"
    /\ out' = out
    /\ NoSave
    /\ hist' = HistInsert(TRUE, SupplyStack_push(gSupplies, x).ret, x)
    /\ msg' = ""
    /\ shown' = <<>>
    /\ loop_i' = 0
    /\ UNCHANGED <<role, gPatients, gEmerg, gAmb>>

Call_SupplyStack_pop ==
    /\ role = "supplies"
    /\ LET r == SupplyStack_pop(gSupplies, out)
       IN  /\ gSupplies' = r.s
           /\ ret' = Bool(r.ret)
           /\ out' = r.out
    /\ op' = "SupplyStack::pop"
    /\ NoSave
    /\ hist' = HistRemove(~SupplyStack_isEmpty(gSupplies), SupplyStack_pop(gSupplies, out).out)
    /\ msg' = ""
    /\ shown' = <<>>
    /\ loop_i' = 0
    /\ UNCHANGED <<role, gPatients, gEmerg, gAmb>>

\* The removal of ui_use_supply_by_type (from "const char* wanted" on) for
\* any wanted type.
UseSupplyOfType(wanted) ==
    /\ role = "supplies"
    /\ op' = "use_supply_of_type"
    /\ LET r == useMostRecentOfType(gSupplies, wanted)
       IN  /\ gSupplies' = r.s
           /\ msg' = r.msg
           /\ out' = r.out
           /\ IF r.msg = "used"
              THEN Save("supplies", SupplyStack_saveToFile(r.s))
              ELSE NoSave
    /\ hist' = NoHist
    /\ ret' = "void"
    /\ shown' = <<>>
    /\ loop_i' = 0
    /\ UNCHANGED <<role, gPatients, gEmerg, gAmb>>

load_supplies_from_file ==
    /\ role = "supplies"
    /\ gSupplies' = SupplyStack_loadFromFile(gSupplies, files["supplies"]).c
    /\ op' = "load_supplies_from_file"
    /\ ret' = "void"
    /\ out' = ZeroSupply
    /\ NoSave
    /\ hist' = NoHist
    /\ msg' = IF files["supplies"] = NoFile THEN "not found" ELSE "loaded"
    /\ shown' = <<>>
    /\ loop_i' = 0
    /\ UNCHANGED <<role, gPatients, gEmerg, gAmb>>

ui_add_supply(t) ==
    /\ role = "supplies"
    /\ op' = "ui_add_supply"
    /\ out' = ZeroSupply
    /\ IF SupplyStack_isFull(gSupplies)
       THEN /\ gSupplies' = gSupplies
            /\ msg' = "full"
            /\ NoSave
       ELSE LET x == [type |-> safe_getline(t[1], SUPPLY_TYPE_CAP),
                      quantity |-> t[2],
                      batch |-> safe_getline(t[3], BATCH_CAP)]
                r == SupplyStack_push(gSupplies, x)
            IN  /\ gSupplies' = r.s
                /\ IF r.ret
                   THEN msg' = "recorded" /\ Save("supplies", SupplyStack_saveToFile(r.s))
                   ELSE msg' = "failed" /\ NoSave
    /\ hist' = NoHist
    /\ ret' = "void"
    /\ shown' = <<>>
    /\ loop_i' = 0
    /\ UNCHANGED <<role, gPatients, gEmerg, gAmb>>

\* choice is the number typed at "Choose a type (1-typeCount)".
ui_use_supply_by_type(choice) ==
    /\ role = "supplies"
    /\ op' = "ui_use_supply_by_type"
    /\ IF SupplyStack_isEmpty(gSupplies)
       THEN /\ choice = 1
            /\ gSupplies' = gSupplies
            /\ msg' = "empty"
            /\ out' = ZeroSupply
            /\ NoSave
       ELSE LET types == UniqueTypes(gSupplies, 0, <<>>)
            IN  /\ choice \in 1..Len(types)
                /\ LET r == useMostRecentOfType(gSupplies, types[choice])
                   IN  /\ gSupplies' = r.s
                       /\ msg' = r.msg
                       /\ out' = r.out
                       /\ IF r.msg = "used"
                          THEN Save("supplies", SupplyStack_saveToFile(r.s))
                          ELSE NoSave
    /\ hist' = NoHist
    /\ ret' = "void"
    /\ shown' = <<>>
    /\ loop_i' = 0
    /\ UNCHANGED <<role, gPatients, gEmerg, gAmb>>

(***************************************************************************)
(* Role 3: emergencies.                                                    *)
(***************************************************************************)
Call_EmergencyMaxHeap_push(e) ==
    /\ role = "emerg"
    /\ gEmerg' = EmergencyMaxHeap_push(gEmerg, e)
    /\ op' = "EmergencyMaxHeap::push"
    /\ ret' = "void"
    /\ out' = out
    /\ NoSave
    /\ hist' = NoHist
    /\ msg' = IF EmergencyMaxHeap_isFull(gEmerg) THEN "Emergency queue is full." ELSE ""
    /\ shown' = <<>>
    /\ loop_i' = 0
    /\ UNCHANGED <<role, gPatients, gSupplies, gAmb>>

Call_EmergencyMaxHeap_top ==
    /\ role = "emerg"
    /\ gEmerg' = gEmerg
    /\ op' = "EmergencyMaxHeap::top"
    /\ ret' = "void"
    /\ out' = EmergencyMaxHeap_top(gEmerg)
    /\ NoSave
    /\ hist' = NoHist
    /\ msg' = ""
    /\ shown' = <<>>
    /\ loop_i' = 0
    /\ UNCHANGED <<role, gPatients, gSupplies, gAmb>>

Call_EmergencyMaxHeap_pop ==
    /\ role = "emerg"
    /\ gEmerg' = EmergencyMaxHeap_pop(gEmerg)
    /\ op' = "EmergencyMaxHeap::pop"
    /\ ret' = "void"
    /\ out' = out
    /\ NoSave
    /\ hist' = NoHist
    /\ msg' = ""
    /\ shown' = <<>>
    /\ loop_i' = 0
    /\ UNCHANGED <<role, gPatients, gSupplies, gAmb>>

load_emergencies_from_file ==
    /\ role = "emerg"
    /\ gEmerg' = EmergencyMaxHeap_loadFromFile(gEmerg, files["emerg"]).c
    /\ op' = "load_emergencies_from_file"
    /\ ret' = "void"
    /\ out' = ZeroEmergencyCase
    /\ NoSave
    /\ hist' = NoHist
    /\ msg' = IF files["emerg"] = NoFile THEN "not found" ELSE "loaded"
    /\ shown' = <<>>
    /\ loop_i' = 0
    /\ UNCHANGED <<role, gPatients, gSupplies, gAmb>>

\* Clamp priority to 0..100.
clampPriority(n) == IF n < 0 THEN 0 ELSE IF n > 100 THEN 100 ELSE n

ui_log_emergency(t) ==
    /\ role = "emerg"
    /\ op' = "ui_log_emergency"
    /\ out' = ZeroEmergencyCase
    /\ IF EmergencyMaxHeap_isFull(gEmerg)
       THEN /\ gEmerg' = gEmerg
            /\ msg' = "full"
            /\ NoSave
       ELSE LET e == [patient |-> safe_getline(t[1], EMERG_PATIENT_CAP),
                      type |-> safe_getline(t[2], EMERG_TYPE_CAP),
                      priority |-> clampPriority(t[3])]
                h == EmergencyMaxHeap_push(gEmerg, e)
            IN  /\ gEmerg' = h
                /\ msg' = "logged"
                /\ Save("emerg", EmergencyMaxHeap_saveToFile(h))
    /\ hist' = NoHist
    /\ ret' = "void"
    /\ shown' = <<>>
    /\ loop_i' = 0
    /\ UNCHANGED <<role, gPatients, gSupplies, gAmb>>

\* The handler without its emptiness test: top() and pop() are called
\* whatever sz is.
ui_process_most_critical_unguarded ==
    /\ role = "emerg"
    /\ op' = "ui_process_most_critical"
    /\ LET top == EmergencyMaxHeap_top(gEmerg)
           h == EmergencyMaxHeap_pop(gEmerg)
       IN  /\ gEmerg' = h
           /\ msg' = "attended"
           /\ out' = top
           /\ Save("emerg", EmergencyMaxHeap_saveToFile(h))
    /\ hist' = NoHist
    /\ ret' = "void"
    /\ shown' = <<>>
    /\ loop_i' = 0
    /\ UNCHANGED <<role, gPatients, gSupplies, gAmb>>

\* The handler without its closing saveToFile.
ui_process_most_critical_unsaved ==
    /\ role = "emerg"
    /\ op' = "ui_process_most_critical"
    /\ IF EmergencyMaxHeap_isEmpty(gEmerg)
       THEN /\ gEmerg' = gEmerg
            /\ msg' = "empty"
            /\ out' = ZeroEmergencyCase
       ELSE /\ gEmerg' = EmergencyMaxHeap_pop(gEmerg)
            /\ msg' = "attended"
            /\ out' = EmergencyMaxHeap_top(gEmerg)
    /\ NoSave
    /\ hist' = NoHist
    /\ ret' = "void"
    /\ shown' = <<>>
    /\ loop_i' = 0
    /\ UNCHANGED <<role, gPatients, gSupplies, gAmb>>

ui_process_most_critical ==
    /\ role = "emerg"
    /\ op' = "ui_process_most_critical"
    /\ IF EmergencyMaxHeap_isEmpty(gEmerg)
       THEN /\ gEmerg' = gEmerg
            /\ msg' = "empty"
            /\ out' = ZeroEmergencyCase
            /\ NoSave
       ELSE LET top == EmergencyMaxHeap_top(gEmerg)
                h == EmergencyMaxHeap_pop(gEmerg)
            IN  /\ gEmerg' = h
                /\ msg' = "attended"
                /\ out' = top
                /\ Save("emerg", EmergencyMaxHeap_saveToFile(h))
    /\ hist' = NoHist
    /\ ret' = "void"
    /\ shown' = <<>>
    /\ loop_i' = 0
    /\ UNCHANGED <<role, gPatients, gSupplies, gAmb>>

(***************************************************************************)
(* Specifications.                                                         *)
(* Spec: the start-up loads and the menu handlers, each with its save.     *)
(* SpecAPI: the container operations called directly, in any order.        *)
(***************************************************************************)
Next ==
    \/ load_patients_from_file
    \/ \E t \in PatientTyped \cup PatientTypedLong : ui_admit_patient(t)
    \/ ui_discharge_patient
    \/ load_supplies_from_file
    \/ \E t \in SupplyTyped \cup SupplyTypedLong : ui_add_supply(t)
    \/ \E c \in 1..MAX_SUPPLIES : ui_use_supply_by_type(c)
    \/ load_emergencies_from_file
    \/ \E t \in EmergTyped : ui_log_emergency(t)
    \/ ui_process_most_critical
    \/ load_ambulances_from_file
    \/ \E t \in AmbTyped \cup AmbTypedLong : ui_register_ambulance(t)
    \/ ui_rotate_shift

Spec == Init /\ [][Next]_vars

NextAPI ==
    \/ load_patients_from_file
    \/ load_supplies_from_file
    \/ load_emergencies_from_file
    \/ load_ambulances_from_file
    \/ \E p \in PatientRecs : Call_PatientQueue_enqueue(p)
    \/ Call_PatientQueue_dequeue
    \/ \E x \in SupplyRecs : Call_SupplyStack_push(x)
    \/ Call_SupplyStack_pop
    \/ \E k \in SupplyKeys : UseSupplyOfType(k)
    \/ \E e \in EmergRecs : Call_EmergencyMaxHeap_push(e)
    \/ Call_EmergencyMaxHeap_top
    \/ Call_EmergencyMaxHeap_pop
    \/ \E a \in AmbRecs : Call_AmbulanceCQueue_enqueue(a)
    \/ Call_AmbulanceCQueue_dequeue
    \/ Call_AmbulanceCQueue_rotateOnce
    \/ Call_PatientQueue_print
    \/ Call_AmbulanceCQueue_print

SpecAPI == InitAPI /\ [][NextAPI]_vars

\* SpecHospital: the patient queue of the single-file build, hospital.cpp,
\* which keeps no files; its dequeue is the same code as patient.hpp's.
InitHospital ==
    /\ Constructed
    /\ role = "patients"
    /\ out = ZeroPatient
    /\ files = [r \in Roles |-> NoFile]

NextHospital ==
    \/ \E p \in HospitalRecs : hospital_Call_PatientQueue_enqueue(p)
    \/ Call_PatientQueue_dequeue

SpecHospital == InitHospital /\ [][NextHospital]_vars

(***************************************************************************)
(* Properties.                                                             *)
(***************************************************************************)

\* C1: whatever operations ran (direct calls, keyed removal, restore), the
\* number of records of each container lies between 0 and its capacity.
C1_CountWithinCapacity ==
    /\ gPatients.count \in 0..MAX_PATIENTS
    /\ gSupplies.top + 1 \in 0..MAX_SUPPLIES
    /\ gEmerg.sz \in 0..MAX_EMERG
    /\ gAmb.count \in 0..MAX_AMBULANCES

\* A restore from a file with more records than fit has filled the queue.
C1_Witness ==
    /\ op = "load_patients_from_file"
    /\ Len(files["patients"].lines) > 3 * MAX_PATIENTS
    /\ gPatients.count = MAX_PATIENTS

\* C2: on a non-empty heap top() is a record whose priority is at least
\* that of every record held.
C2_TopIsMax ==
    gEmerg.sz >= 1 =>
        \A i \in 1..gEmerg.sz :
            EmergencyMaxHeap_top(gEmerg).priority >= gEmerg.data[i].priority

\* After a pop, three records of different priorities are left.
C2_Witness ==
    /\ op = "EmergencyMaxHeap::pop"
    /\ gEmerg.sz = 3
    /\ Cardinality({gEmerg.data[i].priority : i \in 1..gEmerg.sz}) = 3

\* C3: every slot 2..sz of the heap array holds a priority not above its
\* parent's (slot i \div 2).
C3_HeapOrder ==
    \A i \in 2..gEmerg.sz :
        gEmerg.data[i \div 2].priority >= gEmerg.data[i].priority

\* A pop has left a heap of at least four records, so that its sift-down
\* had two levels to walk.
C3_Witness ==
    /\ op = "EmergencyMaxHeap::pop"
    /\ gEmerg.sz >= 4
    /\ gEmerg.data[4].priority < gEmerg.data[1].priority

\* C4: in both ring-buffer queues, records enqueued into an empty queue
\* (wherever head stood) and then dequeued with no enqueue in between come
\* out in the order they went in: what has come out is a prefix of what
\* went in.
C4_FifoOrder ==
    (role \in {"patients", "amb"} /\ hist.on) =>
        /\ Len(hist.outs) <= Len(hist.ins)
        /\ \A j \in 1..Len(hist.outs) : hist.outs[j] = hist.ins[j]

\* A full queue of records that are not all the same was filled from an
\* empty queue whose head was not at slot 0, and emptied again.
C4_Witness ==
    /\ role = "patients"
    /\ hist.on
    /\ Len(hist.ins) = MAX_PATIENTS
    /\ hist.outs = hist.ins
    /\ hist.ins[1] # hist.ins[2]
    /\ gPatients.head # 0

\* C5: enqueue on a full queue and dequeue on an empty queue return false
\* and change nothing of the queue (head, tail, count, every slot); the
\* failed dequeue leaves the caller's output record as it was.
C5_FailedCallChangesNothing ==
    [][ /\ (op' = "PatientQueue::enqueue" /\ PatientQueue_isFull(gPatients))
            => (ret' = "false" /\ gPatients' = gPatients)
        /\ (op' = "PatientQueue::dequeue" /\ PatientQueue_isEmpty(gPatients))
            => (ret' = "false" /\ gPatients' = gPatients /\ out' = out)
        /\ (op' = "AmbulanceCQueue::enqueue" /\ AmbulanceCQueue_isFull(gAmb))
            => (ret' = "false" /\ gAmb' = gAmb)
        /\ (op' = "AmbulanceCQueue::dequeue" /\ AmbulanceCQueue_isEmpty(gAmb))
            => (ret' = "false" /\ gAmb' = gAmb /\ out' = out)
      ]_vars

\* A dequeue failed on an empty ambulance queue while the caller's record
\* held an earlier result that differs from the stale front slot.
C5_Witness ==
    /\ op = "AmbulanceCQueue::dequeue"
    /\ ret = "false"
    /\ gAmb.count = 0
    /\ out # ZeroAmbulance
    /\ gAmb.data[gAmb.head] # ZeroAmbulance
    /\ gAmb.data[gAmb.head] # out

\* C6: records pushed onto the stack and then popped with no push in
\* between come out newest first (the j-th popped is the j-th from the end
\* of those pushed, for as many as were pushed); push on a full stack and pop on an empty stack return
\* false and change neither top nor any slot.
C6_StackLifo ==
    /\ []( (role = "supplies" /\ hist.on) =>
             \A j \in 1..Len(hist.outs) :
                 j <= Len(hist.ins)
                     => hist.outs[j] = hist.ins[Len(hist.ins) + 1 - j] )
    /\ [][ /\ (op' = "SupplyStack::push" /\ SupplyStack_isFull(gSupplies))
               => (ret' = "false" /\ gSupplies' = gSupplies)
           /\ (op' = "SupplyStack::pop" /\ SupplyStack_isEmpty(gSupplies))
               => (ret' = "false" /\ gSupplies' = gSupplies)
         ]_vars

\* A full stack of records that are not all the same was popped empty, and
\* one more pop failed.
C6_Witness ==
    /\ role = "supplies"
    /\ hist.on
    /\ Len(hist.ins) = MAX_SUPPLIES
    /\ Len(hist.outs) = MAX_SUPPLIES
    /\ hist.ins[1] # hist.ins[MAX_SUPPLIES]
    /\ op = "SupplyStack::pop"
    /\ ret = "false"

\* The records held by the stack, bottom first.
StackContents(s) == [i \in 1..(s.top + 1) |-> s.data[i - 1]]

\* seq without its n-th element.
RemoveAt(seq, n) == SubSeq(seq, 1, n - 1) \o SubSeq(seq, n + 1, Len(seq))

\* C7: use-supply-by-type with the c-th listed type as key takes out the
\* record of that type nearest the top, lowers top by exactly one and
\* leaves the other records in their bottom-to-top order.
C7_KeyedRemoval ==
    [][ \A c \in 1..MAX_SUPPLIES :
          (ui_use_supply_by_type(c) /\ ~SupplyStack_isEmpty(gSupplies)) =>
             LET key == UniqueTypes(gSupplies, 0, <<>>)[c]
                 matches == {i \in 0..gSupplies.top : gSupplies.data[i].type = key}
             IN  /\ matches # {}
                 /\ LET idx == CHOOSE i \in matches : \A j \in matches : j <= i
                    IN  /\ out' = gSupplies.data[idx]
                        /\ out'.type = key
                        /\ gSupplies'.top = gSupplies.top - 1
                        /\ StackContents(gSupplies')
                             = RemoveAt(StackContents(gSupplies), idx + 1)
      ]_vars

\* Of M(5,x), M(7,z), G(12,y) pushed in this order, the handler has taken
\* out M(7,z), from under the top, and left M(5,x), G(12,y).
C7_Witness ==
    /\ op = "ui_use_supply_by_type"
    /\ msg = "used"
    /\ out = [type |-> <<"M">>, quantity |-> 7, batch |-> <<"z">>]
    /\ gSupplies.top = 1
    /\ gSupplies.data[0] = [type |-> <<"M">>, quantity |-> 5, batch |-> <<"x">>]
    /\ gSupplies.data[1] = [type |-> <<"G">>, quantity |-> 12, batch |-> <<"y">>]
    /\ gSupplies.data[2] = gSupplies.data[1]

\* C8: a keyed removal whose key is the type of no record held leaves top
\* and every slot as they were, reports "type not found" and does not call
\* saveToFile (the file is not touched).
C8_NotFoundChangesNothing ==
    [][ \A k \in SupplyKeys :
          (UseSupplyOfType(k)
             /\ \A i \in 0..gSupplies.top : gSupplies.data[i].type # k) =>
             /\ gSupplies' = gSupplies
             /\ msg' = "type not found"
             /\ saved' = "none"
             /\ files' = files
             /\ failures' = failures
      ]_vars

\* A removal found no record of its key on a stack holding two records.
C8_Witness ==
    /\ op = "use_supply_of_type"
    /\ msg = "type not found"
    /\ saved = "none"
    /\ gSupplies.top = 1

\* How many of the records held have priority p, and the priorities held.
PriorityCount(h, p) == Cardinality({i \in 1..h.sz : h.data[i].priority = p})
PrioritiesHeld(h) == {h.data[i].priority : i \in 1..h.sz}
MaxPriorityHeld(h) ==
    CHOOSE p \in PrioritiesHeld(h) : \A q \in PrioritiesHeld(h) : q <= p

\* C9: pop on a non-empty heap lowers sz by one, and the priorities left are
\* the priorities held before less one occurrence of the largest of them:
\* the count of every other priority is unchanged.
C9_ExtractRemovesOneMax ==
    [][ (Call_EmergencyMaxHeap_pop /\ ~EmergencyMaxHeap_isEmpty(gEmerg)) =>
          /\ gEmerg'.sz = gEmerg.sz - 1
          /\ \A p \in PrioritiesHeld(gEmerg) :
                PriorityCount(gEmerg', p) =
                   PriorityCount(gEmerg, p)
                     - (IF p = MaxPriorityHeld(gEmerg) THEN 1 ELSE 0)
          /\ PrioritiesHeld(gEmerg') \subseteq PrioritiesHeld(gEmerg)
      ]_vars

\* Priorities 5, 9, 3, 9 were pushed in that order and one pop followed: a 9
\* is at the root, 5 and 3 are below it (slot 4 still holds the copy of the
\* record moved to the root).
C9_Witness ==
    /\ op = "EmergencyMaxHeap::pop"
    /\ gEmerg.sz = 3
    /\ gEmerg.data[1].priority = 9
    /\ gEmerg.data[2].priority = 5
    /\ gEmerg.data[3].priority = 3
    /\ gEmerg.data[4].priority = 5

\* C10: push hands its caller a result that tells a stored record from a
\* full heap, a push on a full heap changes neither sz nor any slot, and pop
\* on an empty heap changes nothing and leaves sz at 0.
C10_InsertReportsResult ==
    [][ /\ (Call_EmergencyMaxHeap_pop /\ EmergencyMaxHeap_isEmpty(gEmerg)) =>
              (gEmerg' = gEmerg /\ gEmerg'.sz = 0)
        /\ \A e \in EmergRecs :
              Call_EmergencyMaxHeap_push(e) =>
                 IF EmergencyMaxHeap_isFull(gEmerg)
                 THEN gEmerg' = gEmerg /\ ret' = "false"
                 ELSE ret' # "false"
      ]_vars

\* What push and pop do at capacity / on an empty heap: push returns nothing
\* (void), prints "Emergency queue is full." and changes nothing; pop changes
\* nothing.
C10_FullPushAndEmptyPopChangeNothing ==
    [][ /\ (Call_EmergencyMaxHeap_pop /\ EmergencyMaxHeap_isEmpty(gEmerg)) =>
              (gEmerg' = gEmerg /\ gEmerg'.sz = 0)
        /\ \A e \in EmergRecs :
              (Call_EmergencyMaxHeap_push(e) /\ EmergencyMaxHeap_isFull(gEmerg)) =>
                 /\ gEmerg' = gEmerg
                 /\ ret' = "void"
                 /\ msg' = "Emergency queue is full."
      ]_vars

\* C11: rotateOnce on a queue of at most one record changes neither head,
\* tail, count nor any slot; on a queue of two or more it keeps count and
\* the order becomes the old order without its first record, followed by
\* that record.
C11_RotateOnce ==
    [][ Call_AmbulanceCQueue_rotateOnce =>
          IF gAmb.count <= 1
          THEN gAmb' = gAmb
          ELSE /\ gAmb'.count = gAmb.count
               /\ AmbOrder(gAmb') = Tail(AmbOrder(gAmb)) \o <<Head(AmbOrder(gAmb))>>
      ]_vars

\* [A, B, C] was rotated once and reads [B, C, A].
C11_Witness ==
    /\ op = "AmbulanceCQueue::rotateOnce"
    /\ hist.rot = 1
    /\ hist.base = << [plate |-> <<"A">>], [plate |-> <<"B">>], [plate |-> <<"C">>] >>
    /\ AmbOrder(gAmb) = << [plate |-> <<"B">>], [plate |-> <<"C">>], [plate |-> <<"A">>] >>

\* C12: after as many rotateOnce calls in a row as the queue holds records,
\* the order is the order before the first of them.
C12_FullCycleRestoresOrder ==
    (role = "amb" /\ hist.rot > 0 /\ hist.rot = gAmb.count) =>
        AmbOrder(gAmb) = hist.base

\* Three rotations in a row of a queue of three distinct records whose head
\* was not at slot 0.
C12_Witness ==
    /\ op = "AmbulanceCQueue::rotateOnce"
    /\ hist.rot = 3
    /\ gAmb.count = 3
    /\ gAmb.head # 0
    /\ hist.base[1] # hist.base[2]
    /\ hist.base[2] # hist.base[3]
    /\ AmbOrder(gAmb) = hist.base

\* How many of the records in rotation order have plate p.
PlateCount(q, p) ==
    Cardinality({i \in 1..q.count : AmbOrder(q)[i].plate = p})

\* C13: rotateOnce keeps count and, for every plate, the number of records
\* carrying it; also on a full queue.
C13_RotateKeepsRecords ==
    [][ Call_AmbulanceCQueue_rotateOnce =>
          /\ gAmb'.count = gAmb.count
          /\ \A a \in AmbRecs \cup {ZeroAmbulance} :
                PlateCount(gAmb', a.plate) = PlateCount(gAmb, a.plate)
      ]_vars

\* A full queue was rotated: its order changed, its count did not.
C13_Witness ==
    /\ op = "AmbulanceCQueue::rotateOnce"
    /\ gAmb.count = MAX_AMBULANCES
    /\ hist.rot = 1
    /\ Len(hist.base) = MAX_AMBULANCES
    /\ AmbOrder(gAmb) # hist.base

\* The records of each component in its traversal order.
PatientOrder(q) ==
    [i \in 1..q.count |-> q.data[(q.head + i - 1) % MAX_PATIENTS]]
EmergOrder(h) == [i \in 1..h.sz |-> h.data[i]]

\* C14: a restore that reads the file a successful save of the component's
\* present records wrote leaves the component with the same records in the
\* same traversal order.
C14_SaveThenRestore ==
    [][ /\ (load_patients_from_file
              /\ files["patients"] = TextFile(PatientQueue_saveToFile(gPatients)))
            => PatientOrder(gPatients') = PatientOrder(gPatients)
        /\ (load_supplies_from_file
              /\ files["supplies"] = TextFile(SupplyStack_saveToFile(gSupplies)))
            => StackContents(gSupplies') = StackContents(gSupplies)
        /\ (load_emergencies_from_file
              /\ files["emerg"] = TextFile(EmergencyMaxHeap_saveToFile(gEmerg)))
            => EmergOrder(gEmerg') = EmergOrder(gEmerg)
        /\ (load_ambulances_from_file
              /\ files["amb"] = TextFile(AmbulanceCQueue_saveToFile(gAmb)))
            => AmbOrder(gAmb') = AmbOrder(gAmb)
      ]_vars

\* The same for components none of whose records has an empty first field
\* (the line loadFromFile skips when it is empty).
C14_SaveThenRestoreKeyed ==
    [][ /\ (load_patients_from_file
              /\ (\A i \in 1..gPatients.count : PatientOrder(gPatients)[i].id # <<>>)
              /\ files["patients"] = TextFile(PatientQueue_saveToFile(gPatients)))
            => PatientOrder(gPatients') = PatientOrder(gPatients)
        /\ (load_supplies_from_file
              /\ (\A i \in 0..gSupplies.top : gSupplies.data[i].type # <<>>)
              /\ files["supplies"] = TextFile(SupplyStack_saveToFile(gSupplies)))
            => StackContents(gSupplies') = StackContents(gSupplies)
        /\ (load_emergencies_from_file
              /\ (\A i \in 1..gEmerg.sz : gEmerg.data[i].patient # <<>>)
              /\ files["emerg"] = TextFile(EmergencyMaxHeap_saveToFile(gEmerg)))
            => EmergOrder(gEmerg') = EmergOrder(gEmerg)
        /\ (load_ambulances_from_file
              /\ (\A i \in 1..gAmb.count : AmbOrder(gAmb)[i].plate # <<>>)
              /\ files["amb"] = TextFile(AmbulanceCQueue_saveToFile(gAmb)))
            => AmbOrder(gAmb') = AmbOrder(gAmb)
      ]_vars

\* The lines a component's records make in traversal order, field by field
\* in the declared order, numbers in decimal.
SerializationOf(r, patients, supplies, emerg, amb) ==
    CASE r = "patients" ->
           Flatten([i \in 1..patients.count |->
                      LET p == PatientOrder(patients)[i]
                      IN  <<p.id, p.name, p.condition>>])
      [] r = "supplies" ->
           Flatten([i \in 1..(supplies.top + 1) |->
                      LET x == supplies.data[i - 1]
                      IN  <<x.type, Dec(x.quantity), x.batch>>])
      [] r = "emerg" ->
           Flatten([i \in 1..emerg.sz |->
                      LET e == emerg.data[i]
                      IN  <<e.patient, e.type, Dec(e.priority)>>])
      [] r = "amb" ->
           Flatten([i \in 1..amb.count |-> <<AmbOrder(amb)[i].plate>>])

Serialization(r) == SerializationOf(r, gPatients, gSupplies, gEmerg, gAmb)

\* C15: right after a save that opened its file, the file exists and its
\* lines are exactly the serialization of the records the component holds,
\* whatever the file held before.
C15_SavedFileIsSerialization ==
    saved = "ok" =>
        /\ files[role].exists
        /\ files[role].lines = Serialization(role)

\* A discharge from a queue of two whose head had moved was saved: the file
\* went from six lines to three.
C15_Witness ==
    /\ op = "ui_discharge_patient"
    /\ saved = "ok"
    /\ gPatients.count = 1
    /\ gPatients.head = 2
    /\ Len(files["patients"].lines) = 3

\* The menu handlers that change a component, and the session's component.
Handlers ==
    { "ui_admit_patient", "ui_discharge_patient", "ui_add_supply",
      "ui_use_supply_by_type", "ui_log_emergency", "ui_process_most_critical",
      "ui_register_ambulance", "ui_rotate_shift" }

Component(r) ==
    CASE r = "patients" -> gPatients
      [] r = "supplies" -> gSupplies
      [] r = "emerg" -> gEmerg
      [] r = "amb" -> gAmb

InSync == files[role] = TextFile(Serialization(role))

\* The same of the state a step leaves, with the components it leaves.
InSyncAfter ==
    files'[role'] = TextFile(SerializationOf(role', gPatients', gSupplies', gEmerg', gAmb'))

\* How many records the session's component holds.
Size(r) ==
    CASE r = "patients" -> gPatients.count
      [] r = "supplies" -> gSupplies.top + 1
      [] r = "emerg" -> gEmerg.sz
      [] r = "amb" -> gAmb.count

\* C16: a handler that changes its component calls saveToFile before it
\* returns; when that save opens its file, the file is the serialization of
\* the component as the handler leaves it; and a handler that changes
\* nothing and does not save leaves a file that was the serialization so.
C16_MutationIsFollowedBySave ==
    [][ op' \in Handlers =>
          /\ (Component(role)' # Component(role)) => saved' \in {"ok", "failed"}
          /\ (saved' = "ok") => InSyncAfter
          /\ (saved' = "none" /\ InSync) => InSyncAfter
      ]_vars

\* The most critical case of three was attended and the two left were saved.
C16_Witness ==
    /\ op = "ui_process_most_critical"
    /\ msg = "attended"
    /\ saved = "ok"
    /\ gEmerg.sz = 2
    /\ files["emerg"].lines = Serialization("emerg")
    /\ Len(files["emerg"].lines) = 6

LoadOf(r) ==
    CASE r = "patients" -> "load_patients_from_file"
      [] r = "supplies" -> "load_supplies_from_file"
      [] r = "emerg" -> "load_emergencies_from_file"
      [] r = "amb" -> "load_ambulances_from_file"

\* C18: loadFromFile of a component whose file does not exist leaves the
\* component with no record, whatever it held, and reports no more than the
\* "not found, starting empty" notice.
C18_RestoreWithoutFile ==
    [][ (files[role] = NoFile /\ op' = LoadOf(role)) =>
          /\ Size(role)' = 0
          /\ msg' = "not found"
      ]_vars

\* A heap that held records (slot 1 still shows one) was loaded with no
\* file there and is empty.
C18_Witness ==
    /\ op = "load_emergencies_from_file"
    /\ msg = "not found"
    /\ files["emerg"] = NoFile
    /\ gEmerg.sz = 0
    /\ gEmerg.data[1] # ZeroEmergencyCase
    /\ gEmerg.data[2] # ZeroEmergencyCase

\* The heap after pushing the records of es, first to last, onto h.
RECURSIVE PushAll(_, _)
PushAll(h, es) ==
    IF es = <<>> THEN h ELSE PushAll(EmergencyMaxHeap_push(h, Head(es)), Tail(es))

\* The first n records of the files with more records than fit.
FirstPatients(n) ==
    [i \in 1..n |-> [id |-> <<"P", "1">>, name |-> <<"a">>, condition |-> <<"f">>]]
FirstSupplies(n) ==
    [i \in 1..n |-> [type |-> <<"M">>, quantity |-> 7, batch |-> <<"z">>]]
FirstEmergencies(n) ==
    [i \in 1..n |-> IF i % 2 = 1
                    THEN [patient |-> <<"b">>, type |-> <<"h">>, priority |-> 9]
                    ELSE [patient |-> <<"a">>, type |-> <<"h">>, priority |-> 5]]
FirstAmbulances(n) ==
    [i \in 1..n |-> IF i % 2 = 1 THEN [plate |-> <<"C">>] ELSE [plate |-> <<"A">>]]

\* The component after a load of the file with more records than fit:
\* capacity records, the first of the file, inserted by enqueue / push.
RestoredFirstRecords ==
    /\ (load_patients_from_file /\ files["patients"] = OverfullFile("patients")) =>
          /\ gPatients'.count = MAX_PATIENTS
          /\ PatientOrder(gPatients') = FirstPatients(MAX_PATIENTS)
    /\ (load_supplies_from_file /\ files["supplies"] = OverfullFile("supplies")) =>
          /\ gSupplies'.top + 1 = MAX_SUPPLIES
          /\ StackContents(gSupplies') = FirstSupplies(MAX_SUPPLIES)
    /\ (load_emergencies_from_file /\ files["emerg"] = OverfullFile("emerg")) =>
          /\ gEmerg'.sz = MAX_EMERG
          /\ EmergOrder(gEmerg') =
                EmergOrder(PushAll(EmergencyMaxHeap_clear(gEmerg),
                                   FirstEmergencies(MAX_EMERG)))
    /\ (load_ambulances_from_file /\ files["amb"] = OverfullFile("amb")) =>
          /\ gAmb'.count = MAX_AMBULANCES
          /\ AmbOrder(gAmb') = FirstAmbulances(MAX_AMBULANCES)

\* The stream stands right after the last record that fitted: no line of
\* the rest of the file was read.
RestNotRead ==
    /\ (load_patients_from_file /\ files["patients"] = OverfullFile("patients")) =>
          PatientQueue_loadFromFile(gPatients, files["patients"]).pos
             = 3 * MAX_PATIENTS + 1
    /\ (load_supplies_from_file /\ files["supplies"] = OverfullFile("supplies")) =>
          SupplyStack_loadFromFile(gSupplies, files["supplies"]).pos
             = 3 * MAX_SUPPLIES + 1
    /\ (load_emergencies_from_file /\ files["emerg"] = OverfullFile("emerg")) =>
          EmergencyMaxHeap_loadFromFile(gEmerg, files["emerg"]).pos
             = 3 * MAX_EMERG + 1
    /\ (load_ambulances_from_file /\ files["amb"] = OverfullFile("amb")) =>
          AmbulanceCQueue_loadFromFile(gAmb, files["amb"]).pos
             = MAX_AMBULANCES + 1

\* C19: a load of a file with more well-formed records than the capacity
\* leaves exactly capacity records, the first of the file, inserted by the
\* normal insert, and reads nothing of the rest of the file.
C19_RestoreStopsWhenFull == [][RestoredFirstRecords /\ RestNotRead]_vars

\* What does hold: the component ends with the first capacity records.
C19_RestoreKeepsFirstRecords == [][RestoredFirstRecords]_vars

\* Where the loaders stop: the queues and the stack read one record past
\* the last that fitted (the one enqueue / push refuses); the heap loader
\* reads to the end of the file.
C19_RestoreReadAhead ==
    [][ /\ (load_patients_from_file /\ files["patients"] = OverfullFile("patients")) =>
              PatientQueue_loadFromFile(gPatients, files["patients"]).pos
                 = 3 * (MAX_PATIENTS + 1) + 1
        /\ (load_supplies_from_file /\ files["supplies"] = OverfullFile("supplies")) =>
              SupplyStack_loadFromFile(gSupplies, files["supplies"]).pos
                 = 3 * (MAX_SUPPLIES + 1) + 1
        /\ (load_emergencies_from_file /\ files["emerg"] = OverfullFile("emerg")) =>
              EmergencyMaxHeap_loadFromFile(gEmerg, files["emerg"]).pos
                 = Len(files["emerg"].lines) + 1
        /\ (load_ambulances_from_file /\ files["amb"] = OverfullFile("amb")) =>
              AmbulanceCQueue_loadFromFile(gAmb, files["amb"]).pos
                 = (MAX_AMBULANCES + 1) + 1
      ]_vars

\* The records of the session's component in traversal order.
OrderOf(r) ==
    CASE r = "patients" -> PatientOrder(gPatients)
      [] r = "supplies" -> StackContents(gSupplies)
      [] r = "emerg" -> EmergOrder(gEmerg)
      [] r = "amb" -> AmbOrder(gAmb)

\* C20: a load of a file made of complete records, then a record that lacks
\* a line at the end of the file or whose quantity / priority text is not a
\* number, then anything, leaves exactly the complete records before it
\* (for the heap: pushed in file order), whatever follows, and ends with
\* the ordinary "[OK] Loaded" line.  (A blank line where the number is
\* expected is not among these files.)
C20_RestoreStopsAtBadRecord ==
    [][ \A d \in TruncatedCases(role) :
          (op' = LoadOf(role) /\ files[role] = TruncatedFile(role, d)) =>
             /\ OrderOf(role)' =
                   IF role = "emerg"
                   THEN EmergOrder(PushAll(EmergencyMaxHeap_new, d.kept))
                   ELSE d.kept
             /\ msg' = "loaded"
      ]_vars

\* The supplies file G/12/y, M/q/x, M/7/z was loaded: only G/12/y is held.
C20_Witness ==
    /\ op = "load_supplies_from_file"
    /\ files["supplies"].lines =
          << <<"G">>, <<"1", "2">>, <<"y">>, <<"M">>, <<"q">>, <<"x">>,
             <<"M">>, <<"7">>, <<"z">> >>
    /\ gSupplies.top = 0
    /\ gSupplies.data[0] = [type |-> <<"G">>, quantity |-> 12, batch |-> <<"y">>]

\* The text fields of a record.
TextOf(r, x) ==
    CASE r = "patients" -> <<x.id, x.name, x.condition>>
      [] r = "supplies" -> <<x.type, x.batch>>
      [] r = "emerg" -> <<x.patient, x.type>>
      [] r = "amb" -> <<x.plate>>

\* The records a load of the file of d leaves when the lone blank line is
\* passed over and a blank line inside a record is that field left empty.
BlankWanted(d) == d.pre \o d.midrec \o d.post

\* got is what the load of the file of d must leave: the wanted records in
\* file order (the heap: pushed in that order); where the blank line is the
\* number's, as many records with the wanted text fields.
BlankRead(r, d, got) ==
    IF d.number
    THEN /\ Len(got) = Len(BlankWanted(d))
         /\ { TextOf(r, got[i]) : i \in 1..Len(got) }
               = { TextOf(r, BlankWanted(d)[i]) : i \in 1..Len(BlankWanted(d)) }
    ELSE got = IF r = "emerg"
               THEN EmergOrder(PushAll(EmergencyMaxHeap_new, BlankWanted(d)))
               ELSE BlankWanted(d)

\* C21: in a load, a blank line where a record's first field is expected is
\* passed over and starts no record, and a blank line at any other position
\* of a record (name, condition, type of emergency, batch, quantity,
\* priority) is read as that field, empty, the record taking its three
\* lines and the records after it being read as they stand.
C21_BlankLines ==
    [][ \A d \in BlankCases(role) :
          (op' = LoadOf(role) /\ files[role] = BlankFile(role, d)) =>
             BlankRead(role, d, OrderOf(role)')
      ]_vars

\* What does hold: the same for the blank lines that are not where the
\* number is expected.
C21_BlankTextLines ==
    [][ \A d \in BlankCases(role) :
          (op' = LoadOf(role) /\ files[role] = BlankFile(role, d) /\ ~d.number) =>
             BlankRead(role, d, OrderOf(role)')
      ]_vars

\* Where the number is expected, operator>> passes over the blank line with
\* the other white space and takes the next line for the number: here that
\* line is the batch (or the next record's patient), not a number, and the
\* load ends with the records before.
C21_BlankNumberLineIsSkipped ==
    [][ \A d \in BlankCases(role) :
          (op' = LoadOf(role) /\ files[role] = BlankFile(role, d) /\ d.number) =>
             OrderOf(role)' = IF role = "emerg"
                              THEN EmergOrder(PushAll(EmergencyMaxHeap_new, d.pre))
                              ELSE d.pre
      ]_vars

\* C22: after loadFromFile of the emergencies, whatever the order of the
\* records in the file, every record held has a priority no greater than its
\* parent's (the record at half its index).
C22_RestoredHeapIsOrdered ==
    op = "load_emergencies_from_file" =>
        \A i \in 2..gEmerg.sz :
            gEmerg.data[i].priority <= gEmerg.data[i \div 2].priority

\* The file a/h/5, c/k/9, b/h/9, which is not in heap order, was loaded:
\* c is at the root, a below it.
C22_Witness ==
    /\ op = "load_emergencies_from_file"
    /\ files["emerg"].lines =
          << <<"a">>, <<"h">>, <<"5">>, <<"c">>, <<"k">>, <<"9">>,
             <<"b">>, <<"h">>, <<"9">> >>
    /\ gEmerg.sz = 3
    /\ gEmerg.data[1].patient = <<"c">>
    /\ gEmerg.data[2].patient = <<"a">>
    /\ gEmerg.data[3].patient = <<"b">>

\* The record last put into the session's component.
LastStored(r) ==
    CASE r = "patients" -> PatientOrder(gPatients)[gPatients.count]
      [] r = "supplies" -> gSupplies.data[gSupplies.top]
      [] r = "emerg" -> gEmerg.data[gEmerg.sz]
      [] r = "amb" -> AmbOrder(gAmb)[gAmb.count]

\* The record of the file of long lines with every text field cut to the
\* longest text the field holds.
CutRecord(r) ==
    CASE r = "patients" ->
           [id |-> Fill(ID_CAP - 1, "i"), name |-> Fill(NAME_CAP - 1, "n"),
            condition |-> Fill(CONDITION_CAP - 1, "c")]
      [] r = "supplies" ->
           [type |-> Fill(SUPPLY_TYPE_CAP - 1, "t"), quantity |-> 7,
            batch |-> Fill(BATCH_CAP - 1, "b")]
      [] r = "emerg" ->
           [patient |-> Fill(EMERG_PATIENT_CAP - 1, "s"),
            type |-> Fill(EMERG_TYPE_CAP - 1, "k"), priority |-> 5]
      [] r = "amb" -> [plate |-> Fill(PLATE_CAP - 1, "p")]

\* A load of the file of long lines stores, for each of its two records,
\* the record with every text field cut to the first 15 / 49 / 29 / 19 / 39
\* characters; the two, which differ beyond that only, are stored equal.
\* (No session starts with the emergencies' file of long lines: there the
\* loader is applied to it at every load of the emergencies.)
RestoreCutsLongFields ==
    /\ (op' = LoadOf(role) /\ files[role] = LongFile(role)) =>
          OrderOf(role)' = <<CutRecord(role), CutRecord(role)>>
    /\ op' = "load_emergencies_from_file" =>
          EmergOrder(EmergencyMaxHeap_loadFromFile(gEmerg, LongFile("emerg")).c)
             = <<CutRecord("emerg"), CutRecord("emerg")>>

\* An insert from the menu stores the typed texts cut to the first 15 / 49
\* / 29 / 19 characters.
TypedFieldsAreCut ==
    /\ \A t \in PatientTyped \cup PatientTypedLong :
          (op' = "ui_admit_patient" /\ msg' = "admitted" /\ ui_admit_patient(t)) =>
             LastStored("patients")' =
                [id |-> Prefix(t[1], ID_CAP - 1),
                 name |-> Prefix(t[2], NAME_CAP - 1),
                 condition |-> Prefix(t[3], CONDITION_CAP - 1)]
    /\ \A t \in SupplyTyped \cup SupplyTypedLong :
          (op' = "ui_add_supply" /\ msg' = "recorded" /\ ui_add_supply(t)) =>
             LastStored("supplies")' =
                [type |-> Prefix(t[1], SUPPLY_TYPE_CAP - 1),
                 quantity |-> t[2],
                 batch |-> Prefix(t[3], BATCH_CAP - 1)]
    /\ \A t \in AmbTyped \cup AmbTypedLong :
          (op' = "ui_register_ambulance" /\ msg' = "added"
             /\ ui_register_ambulance(t)) =>
             LastStored("amb")' = [plate |-> Prefix(t, PLATE_CAP - 1)]

\* C23: a text longer than its field holds is stored as its longest prefix
\* that fits (id 15, name 49, condition 29, type 29, batch 19, patient 49,
\* emergency type 39, plate 15 characters), both when typed at an insert of
\* the menu and when read by loadFromFile; records that differ beyond the
\* prefix only are stored equal.
C23_LongFieldsAreCut == [][TypedFieldsAreCut /\ RestoreCutsLongFields]_vars

\* What does hold: loadFromFile cuts (strncpy of sizeof - 1 characters).
C23_RestoreCutsLongFields == [][RestoreCutsLongFields]_vars

\* And at the menu: safe_getline leaves the field empty when the typed line
\* is longer than the field holds, and stores it whole otherwise.
C23_TypedLongFieldIsEmptied ==
    [][ /\ \A t \in PatientTyped \cup PatientTypedLong :
              (op' = "ui_admit_patient" /\ msg' = "admitted" /\ ui_admit_patient(t)) =>
                 LET p == LastStored("patients")'
                 IN  /\ p.id = IF Len(t[1]) > ID_CAP - 1 THEN <<>> ELSE t[1]
                     /\ p.name = IF Len(t[2]) > NAME_CAP - 1 THEN <<>> ELSE t[2]
                     /\ p.condition =
                           IF Len(t[3]) > CONDITION_CAP - 1 THEN <<>> ELSE t[3]
        /\ \A t \in SupplyTyped \cup SupplyTypedLong :
              (op' = "ui_add_supply" /\ msg' = "recorded" /\ ui_add_supply(t)) =>
                 LET x == LastStored("supplies")'
                 IN  /\ x.type = IF Len(t[1]) > SUPPLY_TYPE_CAP - 1 THEN <<>> ELSE t[1]
                     /\ x.batch = IF Len(t[3]) > BATCH_CAP - 1 THEN <<>> ELSE t[3]
        /\ \A t \in AmbTyped \cup AmbTypedLong :
              (op' = "ui_register_ambulance" /\ msg' = "added"
                 /\ ui_register_ambulance(t)) =>
                 LastStored("amb")'.plate = IF Len(t) > PLATE_CAP - 1 THEN <<>> ELSE t
      ]_vars

\* C24: enqueue of the patient queue, in both builds, fails only on a full
\* queue: called with fewer than MAX_PATIENTS records held it returns true
\* whatever the record's fields are (an empty id or name included), the
\* record becomes the last of the queue and count grows by one.
C24_EnqueueFailsOnlyWhenFull ==
    [][ \A p \in HospitalRecs :
          ( /\ op' \in {"PatientQueue::enqueue", "hospital.cpp PatientQueue::enqueue"}
            /\ gPatients.count < MAX_PATIENTS
            /\ (Call_PatientQueue_enqueue(p) \/ hospital_Call_PatientQueue_enqueue(p)) )
          => /\ ret' = "true"
             /\ gPatients'.count = gPatients.count + 1
             /\ PatientOrder(gPatients') = Append(PatientOrder(gPatients), p)
      ]_vars

\* What hospital.cpp does: a record with an empty id or name is refused and
\* the queue stays as it was; any other record is accepted as C24 says.
C24_HospitalEnqueueValidates ==
    [][ \A p \in HospitalRecs :
          ( /\ op' = "hospital.cpp PatientQueue::enqueue"
            /\ gPatients.count < MAX_PATIENTS
            /\ hospital_Call_PatientQueue_enqueue(p) )
          => IF p.id = <<>> \/ p.name = <<>>
             THEN ret' = "false" /\ gPatients' = gPatients
             ELSE /\ ret' = "true"
                  /\ PatientOrder(gPatients') = Append(PatientOrder(gPatients), p)
      ]_vars

(***************************************************************************)
(* SpecMain: main() of main.cpp.  It calls the four loads one after the    *)
(* other and then enters the menu loop, from which the handlers of the     *)
(* session's component are called.  op, the last call made, is the place   *)
(* main has reached.  The files of the other three components are ones an  *)
(* earlier run wrote.                                                      *)
(***************************************************************************)
SavedFile(r) ==
    CASE r = "patients" ->
           TextFile(<< <<"P", "1">>, <<"a">>, <<"f">>, <<"P", "2">>, <<"b">>, <<"g">> >>)
      [] r = "supplies" ->
           TextFile(<< <<"M">>, <<"5">>, <<"x">>, <<"G">>, <<"1", "2">>, <<"y">> >>)
      [] r = "emerg" ->
           TextFile(<< <<"a">>, <<"h">>, <<"5">>, <<"c">>, <<"k">>, <<"9">>,
                       <<"b">>, <<"h">>, <<"9">> >>)
      [] r = "amb" -> TextFile(<< <<"A">>, <<"B">> >>)

InitMain ==
    /\ Constructed
    /\ role \in Roles
    /\ out = ZeroOut(role)
    /\ \E f \in InitialFiles(role) :
          files = [r \in Roles |-> IF r = role THEN f ELSE SavedFile(r)]

\* What a load called from main leaves besides the component.
LoadedFrom(r, at) ==
    /\ op = at
    /\ op' = LoadOf(r)
    /\ msg' = IF files[r] = NoFile THEN "not found" ELSE "loaded"
    /\ ret' = "void"
    /\ out' = out
    /\ NoSave
    /\ hist' = NoHist
    /\ shown' = <<>>
    /\ loop_i' = 0
    /\ role' = role

main_load_patients ==
    /\ LoadedFrom("patients", "start")
    /\ gPatients' = PatientQueue_loadFromFile(gPatients, files["patients"]).c
    /\ UNCHANGED <<gSupplies, gEmerg, gAmb>>

main_load_supplies ==
    /\ LoadedFrom("supplies", "load_patients_from_file")
    /\ gSupplies' = SupplyStack_loadFromFile(gSupplies, files["supplies"]).c
    /\ UNCHANGED <<gPatients, gEmerg, gAmb>>

main_load_emergencies ==
    /\ LoadedFrom("emerg", "load_supplies_from_file")
    /\ gEmerg' = EmergencyMaxHeap_loadFromFile(gEmerg, files["emerg"]).c
    /\ UNCHANGED <<gPatients, gSupplies, gAmb>>

main_load_ambulances ==
    /\ LoadedFrom("amb", "load_emergencies_from_file")
    /\ gAmb' = AmbulanceCQueue_loadFromFile(gAmb, files["amb"]).c
    /\ UNCHANGED <<gPatients, gSupplies, gEmerg>>

\* A main whose menu loop runs beside the loads.
main_loop_at_once == TRUE

\* main is in its menu loop: the four loads have returned.
main_loop == op \in Handlers \cup {"load_ambulances_from_file"}

menu_patients ==
    /\ main_loop
    /\ \/ \E t \in PatientTyped \cup PatientTypedLong : ui_admit_patient(t)
       \/ ui_discharge_patient

menu_supplies ==
    /\ main_loop
    /\ \/ \E t \in SupplyTyped \cup SupplyTypedLong : ui_add_supply(t)
       \/ \E c \in 1..MAX_SUPPLIES : ui_use_supply_by_type(c)

menu_emergency ==
    /\ main_loop
    /\ \/ \E t \in EmergTyped : ui_log_emergency(t)
       \/ ui_process_most_critical

menu_ambulance ==
    /\ main_loop
    /\ \/ \E t \in AmbTyped \cup AmbTypedLong : ui_register_ambulance(t)
       \/ ui_rotate_shift

NextMain ==
    \/ main_load_patients
    \/ main_load_supplies
    \/ main_load_emergencies
    \/ main_load_ambulances
    \/ menu_patients
    \/ menu_supplies
    \/ menu_emergency
    \/ menu_ambulance

SpecMain == InitMain /\ [][NextMain]_vars

\* The four loads in the order main calls them.
StartUp ==
    << "start", "load_patients_from_file", "load_supplies_from_file",
       "load_emergencies_from_file", "load_ambulances_from_file" >>

\* C25: from the start of the process the calls made are the four loads,
\* each once and each a real loadFromFile of its component, and only then
\* handlers: a load is called only right after the one before it (the
\* first only at the start, to which nothing returns), and a handler, with
\* its insert, removal, rotation and save, only once the last load has
\* returned, after which no load is called again.
C25_RestoreOnceAtStart ==
    [][ /\ op' # "start"
        /\ \A i \in 2..Len(StartUp) : op' = StartUp[i] => op = StartUp[i - 1]
        /\ op' \notin Handlers =>
              \E i \in 2..Len(StartUp) : op' = StartUp[i]
        /\ op' \in Handlers =>
              op \in Handlers \cup {StartUp[Len(StartUp)]}
        /\ op' = "load_patients_from_file" =>
              gPatients' = PatientQueue_loadFromFile(gPatients, files["patients"]).c
        /\ op' = "load_supplies_from_file" =>
              gSupplies' = SupplyStack_loadFromFile(gSupplies, files["supplies"]).c
        /\ op' = "load_emergencies_from_file" =>
              gEmerg' = EmergencyMaxHeap_loadFromFile(gEmerg, files["emerg"]).c
        /\ op' = "load_ambulances_from_file" =>
              gAmb' = AmbulanceCQueue_loadFromFile(gAmb, files["amb"]).c
      ]_vars

\* The ambulance shift was rotated in a process whose four components all
\* hold what their files held at the start.
C25_Witness ==
    /\ op = "ui_rotate_shift"
    /\ role = "amb"
    /\ gPatients.count = 2
    /\ gSupplies.top = 1
    /\ gEmerg.sz = 3
    /\ gAmb.count = 2
    /\ AmbOrder(gAmb) = << [plate |-> <<"B">>], [plate |-> <<"A">>] >>

\* The component a load or a handler works on.
TargetOf(o) ==
    CASE o \in {"load_patients_from_file", "ui_admit_patient", "ui_discharge_patient"}
           -> "patients"
      [] o \in {"load_supplies_from_file", "ui_add_supply", "ui_use_supply_by_type"}
           -> "supplies"
      [] o \in {"load_emergencies_from_file", "ui_log_emergency",
                 "ui_process_most_critical"}
           -> "emerg"
      [] o \in {"load_ambulances_from_file", "ui_register_ambulance", "ui_rotate_shift"}
           -> "amb"

\* C26: a load or a handler of one component (with its insert, removal or
\* rotation and its save) leaves the other three components and their
\* files exactly as they were.
C26_OtherComponentsUntouched ==
    [][ \A r \in Roles \ {TargetOf(op')} :
          /\ Component(r)' = Component(r)
          /\ files'[r] = files[r]
      ]_vars

\* An emergency was logged and saved while the other three components hold
\* the records of their files, which are as they were at the start.
C26_Witness ==
    /\ op = "ui_log_emergency"
    /\ saved = "ok"
    /\ gEmerg.sz = 2
    /\ files["emerg"].lines = Serialization("emerg")
    /\ gPatients.count = 2
    /\ gSupplies.top = 1
    /\ gAmb.count = 2
    /\ \A r \in Roles \ {"emerg"} :
          files[r] = SavedFile(r) /\ files[r].lines = Serialization(r)

\* How many times x is in seq, and whether two sequences hold the same
\* records as many times each.
TimesIn(seq, x) == Cardinality({ i \in 1..Len(seq) : seq[i] = x })

SameRecords(s1, s2) ==
    /\ Len(s1) = Len(s2)
    /\ \A i \in 1..Len(s1) : TimesIn(s1, s1[i]) = TimesIn(s2, s1[i])

\* after holds the records of before less one record x.
OneTaken(before, after, x) ==
    \E i \in 1..Len(before) :
        before[i] = x /\ SameRecords(after, RemoveAt(before, i))

\* C27: over the direct calls of the four containers, the records held
\* (as a multiset) change only so: a successful insert adds the inserted
\* record and nothing else; a successful dequeue, pop, keyed removal or
\* heap pop takes out one record, the one handed out (the root for the heap)
\* and nothing else; a refused call, top() and rotateOnce leave the same
\* records.  Sift-up, sift-down and the stack's shift run inside these
\* calls.  (loadFromFile, which starts from clear(), is left out: it is the
\* start-up's call.)
C27_RecordsLeaveOnlyByRemoval ==
    [][ LET before == OrderOf(role)
            after == OrderOf(role)'
        IN  /\ \A p \in PatientRecs :
                  (op' = "PatientQueue::enqueue" /\ Call_PatientQueue_enqueue(p)) =>
                     SameRecords(after, IF ret' = "true" THEN Append(before, p)
                                        ELSE before)
            /\ \A x \in SupplyRecs :
                  (op' = "SupplyStack::push" /\ Call_SupplyStack_push(x)) =>
                     SameRecords(after, IF ret' = "true" THEN Append(before, x)
                                        ELSE before)
            /\ \A e \in EmergRecs :
                  (op' = "EmergencyMaxHeap::push" /\ Call_EmergencyMaxHeap_push(e)) =>
                     SameRecords(after, IF Len(before) < MAX_EMERG
                                        THEN Append(before, e) ELSE before)
            /\ \A a \in AmbRecs :
                  (op' = "AmbulanceCQueue::enqueue" /\ Call_AmbulanceCQueue_enqueue(a)) =>
                     SameRecords(after, IF ret' = "true" THEN Append(before, a)
                                        ELSE before)
            /\ op' \in {"PatientQueue::dequeue", "SupplyStack::pop",
                         "AmbulanceCQueue::dequeue"} =>
                  IF ret' = "true" THEN OneTaken(before, after, out')
                  ELSE SameRecords(after, before)
            /\ op' = "use_supply_of_type" =>
                  IF msg' = "used" THEN OneTaken(before, after, out')
                  ELSE SameRecords(after, before)
            /\ op' = "EmergencyMaxHeap::pop" =>
                  IF before # <<>> THEN SameRecords(after, Tail(before))
                  ELSE SameRecords(after, before)
            /\ op' \in {"AmbulanceCQueue::rotateOnce", "EmergencyMaxHeap::top"} =>
                  SameRecords(after, before)
      ]_vars

\* The keyed removal took the record M/7/z out from between two G/12/y,
\* which the shift closed up.
C27_Witness ==
    /\ op = "use_supply_of_type"
    /\ msg = "used"
    /\ out = [type |-> <<"M">>, quantity |-> 7, batch |-> <<"z">>]
    /\ gSupplies.top = 1
    /\ gSupplies.data[0] = [type |-> <<"G">>, quantity |-> 12, batch |-> <<"y">>]
    /\ gSupplies.data[1] = gSupplies.data[0]
    /\ gSupplies.data[2] = gSupplies.data[0]

\* The records dequeue hands out when called until the queue is empty.
RECURSIVE PatientsDequeued(_)
PatientsDequeued(q) ==
    IF PatientQueue_isEmpty(q) THEN <<>>
    ELSE LET r == PatientQueue_dequeue(q, ZeroPatient)
         IN  <<r.out>> \o PatientsDequeued(r.q)

RECURSIVE AmbulancesDequeued(_)
AmbulancesDequeued(q) ==
    IF AmbulanceCQueue_isEmpty(q) THEN <<>>
    ELSE LET r == AmbulanceCQueue_dequeue(q, ZeroAmbulance)
         IN  <<r.out>> \o AmbulancesDequeued(r.q)

\* C28: print() of the patient queue and of the ambulance queue lists
\* exactly count records, the i-th listed being the one in slot
\* (head + i - 1) mod capacity, which is the order in which dequeue would
\* hand the records out, wherever head stands.
C28_PrintFollowsDequeueOrder ==
    /\ op = "PatientQueue::print" =>
          /\ Len(shown) = gPatients.count
          /\ \A i \in 1..Len(shown) :
                shown[i] = gPatients.data[(gPatients.head + i - 1) % MAX_PATIENTS]
          /\ shown = PatientsDequeued(gPatients)
    /\ op = "AmbulanceCQueue::print" =>
          /\ Len(shown) = gAmb.count
          /\ \A i \in 1..Len(shown) :
                shown[i] = gAmb.data[(gAmb.head + i - 1) % MAX_AMBULANCES]
          /\ shown = AmbulancesDequeued(gAmb)

\* A full patient queue whose head is at the last slot was printed: the
\* list starts with that slot and goes on with slots 0 and 1.
C28_Witness ==
    /\ op = "PatientQueue::print"
    /\ gPatients.count = MAX_PATIENTS
    /\ gPatients.head = MAX_PATIENTS - 1
    /\ shown[1] = gPatients.data[MAX_PATIENTS - 1]
    /\ shown[2] = gPatients.data[0]
    /\ shown[1] # shown[2]
    /\ shown[2] # shown[3]

\* k is n or one of the slots above it on the way to the root.
RECURSIVE OnPathToRoot(_, _)
OnPathToRoot(k, n) ==
    IF n < k THEN FALSE
    ELSE IF n = k THEN TRUE
    ELSE OnPathToRoot(k, n \div 2)

\* C29: a push into a heap that is not full puts the record in slot
\* n = sz + 1 and lifts it along the way to the root to some slot j: every
\* record it went above had a strictly smaller priority (and went down one
\* level), the parent of slot j, if there is one, has a priority not
\* smaller, and the slots off that stretch keep their records.  So a
\* record pushed under a parent of equal priority stays in slot n.
C29_SiftUpStopsAtEqual ==
    [][ \A e \in EmergRecs :
          ( /\ op' = "EmergencyMaxHeap::push"
            /\ gEmerg.sz < MAX_EMERG
            /\ Call_EmergencyMaxHeap_push(e) )
          => LET n == gEmerg.sz + 1
                 old == gEmerg.data
                 new == gEmerg'.data
             IN  /\ \E j \in 1..n :
                       /\ OnPathToRoot(j, n)
                       /\ new[j] = e
                       /\ j > 1 => new[j \div 2].priority >= e.priority
                       /\ \A k \in j..(n - 1) :
                             IF OnPathToRoot(k, n)
                             THEN /\ old[k].priority < e.priority
                                  /\ \E c \in {2 * k, 2 * k + 1} :
                                        OnPathToRoot(c, n) /\ new[c] = old[k]
                             ELSE new[k] = old[k]
                       /\ \A k \in 1..(j - 1) : new[k] = old[k]
                       /\ \A k \in (j + 1)..n : ~OnPathToRoot(k, n) => new[k] = old[k]
                 /\ (n > 1 /\ old[n \div 2].priority = e.priority) =>
                       /\ new[n] = e
                       /\ \A k \in 1..(n - 1) : new[k] = old[k]
      ]_vars

\* c/k/9 was pushed into slot 3 under the root b/h/9 and is still there.
C29_Witness ==
    /\ op = "EmergencyMaxHeap::push"
    /\ msg = ""
    /\ gEmerg.sz = 3
    /\ gEmerg.data[1] = [patient |-> <<"b">>, type |-> <<"h">>, priority |-> 9]
    /\ gEmerg.data[2] = [patient |-> <<"a">>, type |-> <<"h">>, priority |-> 5]
    /\ gEmerg.data[3] = [patient |-> <<"c">>, type |-> <<"k">>, priority |-> 9]

\* The slot C30 names for the swap at node i: the right child when its
\* priority is strictly greater than the node's and the left child's, else
\* the left child when its priority is strictly greater than the node's,
\* else the node itself (no swap).
ChildToSwap(data, sz, i) ==
    LET left == 2 * i
        right == 2 * i + 1
    IN  IF /\ right <= sz
           /\ data[right].priority > data[i].priority
           /\ data[right].priority > data[left].priority
        THEN right
        ELSE IF left <= sz /\ data[left].priority > data[i].priority
             THEN left
             ELSE i

RECURSIVE SwapsDownFrom(_, _, _)
SwapsDownFrom(data, sz, i) ==
    LET c == ChildToSwap(data, sz, i)
    IN  IF c = i THEN data
        ELSE SwapsDownFrom([data EXCEPT ![i] = data[c], ![c] = data[i]], sz, c)

\* C30: a pop of a heap that is not empty moves the last record to the
\* root and sifts it down, at each node swapping with the slot C30 names.
\* At the root: when both children have the same priority, greater than
\* the moved record's, the left child comes up and the right child stays;
\* and the right child's slot changes only if its priority was strictly
\* greater than the moved record's and the left child's.
C30_SiftDownPrefersLeft ==
    [][ (op' = "EmergencyMaxHeap::pop" /\ gEmerg.sz >= 1) =>
          LET n == gEmerg.sz - 1
              moved == [gEmerg.data EXCEPT ![1] = gEmerg.data[gEmerg.sz]]
              new == gEmerg'.data
          IN  /\ gEmerg'.sz = n
              /\ new = SwapsDownFrom(moved, n, 1)
              /\ (/\ n >= 3
                  /\ moved[2].priority = moved[3].priority
                  /\ moved[2].priority > moved[1].priority) =>
                    /\ new[1] = moved[2]
                    /\ new[3] = moved[3]
              /\ (n >= 3 /\ new[3] # moved[3]) =>
                    /\ moved[3].priority > moved[1].priority
                    /\ moved[3].priority > moved[2].priority
                    /\ new[1] = moved[3]
      ]_vars

\* The heap b/9, c/9, b/9, a/5 was popped: a/5 went to the root, found
\* both children at 9 and changed places with the left one, c/9.
C30_Witness ==
    /\ op = "EmergencyMaxHeap::pop"
    /\ gEmerg.sz = 3
    /\ gEmerg.data[1] = [patient |-> <<"c">>, type |-> <<"k">>, priority |-> 9]
    /\ gEmerg.data[2] = [patient |-> <<"a">>, type |-> <<"h">>, priority |-> 5]
    /\ gEmerg.data[3] = [patient |-> <<"b">>, type |-> <<"h">>, priority |-> 9]
    /\ gEmerg.data[4] = gEmerg.data[2]

(***************************************************************************)
(* C31: ui_process_most_critical reads top() only on a heap that holds a   *)
(* record.                                                                 *)
(***************************************************************************)
\* C31: the interactive process-most-critical path reaches top() and pop()
\* only when sz >= 1: a run of the handler that reports a case as attended
\* started with sz >= 1, the case it reports is one of the records held in
\* data[1..sz] before it, and the heap holds one record less; a run that
\* starts with sz = 0 reports "No emergencies in queue.", hands back no
\* record and leaves the heap as it was.
C31_TopReadOnlyWhenHeld ==
    [][ op' = "ui_process_most_critical" =>
          IF msg' = "attended"
          THEN /\ gEmerg.sz >= 1
               /\ \E i \in 1..gEmerg.sz : gEmerg.data[i] = out'
               /\ gEmerg'.sz = gEmerg.sz - 1
          ELSE /\ gEmerg.sz = 0
               /\ msg' = "empty"
               /\ out' = ZeroEmergencyCase
               /\ gEmerg' = gEmerg
      ]_vars

\* The only case held was attended and the heap is empty afterwards, its
\* slot 1 still holding that case.
C31_Witness ==
    /\ op = "ui_process_most_critical"
    /\ msg = "attended"
    /\ gEmerg.sz = 0
    /\ out = [patient |-> <<"b">>, type |-> <<"h">>, priority |-> 9]
    /\ gEmerg.data[1] = out

(***************************************************************************)
(* C32: the indices of the two ring buffers.                               *)
(***************************************************************************)
\* head and tail are slots of the array, tail is count slots after head
\* going round, and head meets tail exactly when the queue is empty or full.
RingIndicesAgree(q, capacity) ==
    /\ 0 <= q.head /\ q.head < capacity
    /\ 0 <= q.tail /\ q.tail < capacity
    /\ q.tail = (q.head + q.count) % capacity
    /\ (q.head = q.tail) <=> (q.count = 0 \/ q.count = capacity)

\* C32: in every reachable state of the patient queue and of the ambulance
\* queue, 0 <= head < capacity, 0 <= tail < capacity and
\* tail = (head + count) mod capacity; head = tail holds exactly when count
\* is 0 or count is the capacity.
C32_RingIndicesAgree ==
    /\ RingIndicesAgree(gPatients, MAX_PATIENTS)
    /\ RingIndicesAgree(gAmb, MAX_AMBULANCES)

\* A full patient queue whose head and tail meet at the last slot.
C32_Witness ==
    /\ op = "PatientQueue::enqueue"
    /\ ret = "true"
    /\ gPatients.count = MAX_PATIENTS
    /\ gPatients.head = MAX_PATIENTS - 1
    /\ gPatients.tail = gPatients.head

(***************************************************************************)
(* C33: the ring buffers against a bounded FIFO sequence.                  *)
(***************************************************************************)
\* The bounded FIFO sequence: enqueue appends unless the sequence has
\* capacity elements, dequeue takes the first element unless there is none.
FifoEnqueue(s, x, capacity) ==
    IF Len(s) < capacity
    THEN [s |-> Append(s, x), ret |-> "true"]
    ELSE [s |-> s, ret |-> "false"]

FifoDequeue(s, o) ==
    IF s # <<>>
    THEN [s |-> Tail(s), ret |-> "true", out |-> Head(s)]
    ELSE [s |-> s, ret |-> "false", out |-> o]

\* C33: read through the elements at (head + i) mod capacity for i < count,
\* oldest first, each queue is a bounded FIFO sequence: a new queue reads as
\* the empty sequence, every enqueue call is the sequence's enqueue (same
\* result, same sequence afterwards) and every dequeue call is the
\* sequence's dequeue (same result, the oldest element handed out, same
\* sequence afterwards), wherever head and tail are in the array.
C33_QueueIsBoundedFifo ==
    [][ /\ \A p \in PatientRecs :
              (op' = "PatientQueue::enqueue" /\ Call_PatientQueue_enqueue(p)) =>
                 LET f == FifoEnqueue(PatientOrder(gPatients), p, MAX_PATIENTS)
                 IN  /\ PatientOrder(gPatients') = f.s
                     /\ ret' = f.ret
        /\ op' = "PatientQueue::dequeue" =>
              LET f == FifoDequeue(PatientOrder(gPatients), out)
              IN  /\ PatientOrder(gPatients') = f.s
                  /\ ret' = f.ret
                  /\ out' = f.out
        /\ \A a \in AmbRecs :
              (op' = "AmbulanceCQueue::enqueue" /\ Call_AmbulanceCQueue_enqueue(a)) =>
                 LET f == FifoEnqueue(AmbOrder(gAmb), a, MAX_AMBULANCES)
                 IN  /\ AmbOrder(gAmb') = f.s
                     /\ ret' = f.ret
        /\ op' = "AmbulanceCQueue::dequeue" =>
              LET f == FifoDequeue(AmbOrder(gAmb), out)
              IN  /\ AmbOrder(gAmb') = f.s
                  /\ ret' = f.ret
                  /\ out' = f.out
      ]_vars

\* The new queues read as the empty sequence.
C33_NewQueueIsEmptyFifo ==
    /\ PatientOrder(PatientQueue_new) = <<>>
    /\ AmbOrder(AmbulanceCQueue_new) = <<>>

\* A dequeue has brought head round to slot 0 again: the last slot has been
\* written and read, and two records are held after it.
C33_Witness ==
    /\ op = "PatientQueue::dequeue"
    /\ ret = "true"
    /\ gPatients.head = 0
    /\ gPatients.count = 2
    /\ out = gPatients.data[MAX_PATIENTS - 1]
    /\ out # ZeroPatient
    /\ gPatients.data[0] # gPatients.data[1]

(***************************************************************************)
(* C34: the heap's array after save and restore.                           *)
(***************************************************************************)
\* Every record held names a patient.
SubjectsNonEmpty(h) == \A i \in 1..h.sz : h.data[i].patient # <<>>

\* Pushing the records of data[1..sz] again one after the other in array
\* order, the sift-up entered at slot k finds data[k] no greater than its
\* parent and swaps nothing.
ReinsertionSwapsNothing(h) == \A k \in 1..h.sz : siftUp(h.data, k) = h.data

\* C34: for a heap whose records all have a non-empty patient (the heaps
\* reached all satisfy the max-heap invariant), a restore from the file that
\* a save of that heap wrote leaves sz as it was and the same record at
\* every index 1..sz; pushing the records again in array order triggers no
\* sift-up swap.
C34_HeapArrayRoundTrip ==
    [][ ( /\ op' = "load_emergencies_from_file"
          /\ role = "emerg"
          /\ files["emerg"] = TextFile(EmergencyMaxHeap_saveToFile(gEmerg))
          /\ SubjectsNonEmpty(gEmerg) )
        => /\ gEmerg'.sz = gEmerg.sz
           /\ \A i \in 1..gEmerg.sz : gEmerg'.data[i] = gEmerg.data[i]
           /\ ReinsertionSwapsNothing(gEmerg)
      ]_vars

\* A heap of three logged cases, two of priority 9 at slots 1 and 2 and one
\* whose typed priority was raised to 0, was restored from its own file.
C34_Witness ==
    /\ op = "load_emergencies_from_file"
    /\ gEmerg.sz = 3
    /\ gEmerg.data[1].priority = 9
    /\ gEmerg.data[2].priority = 9
    /\ gEmerg.data[1] # gEmerg.data[2]
    /\ gEmerg.data[3] = [patient |-> <<"d">>, type |-> <<"k">>, priority |-> 0]
    /\ files["emerg"] = TextFile(EmergencyMaxHeap_saveToFile(gEmerg))

(***************************************************************************)
(* C35: the key of ui_use_supply_by_type is a type held.                   *)
(***************************************************************************)
\* The types of the records held.
TypesHeld(s) == { s.data[i].type : i \in 0..s.top }

\* C35: in ui_use_supply_by_type every type listed for the choice is the
\* type of a record held, so the search from the top finds an index in
\* 0..top whichever type is chosen: a run of the handler on a non-empty
\* stack never reports "type not found", hands out a record of the stack and
\* lowers top by exactly one; on an empty stack it changes nothing.
C35_KeyIsAlwaysFound ==
    [][ op' = "ui_use_supply_by_type" =>
          IF SupplyStack_isEmpty(gSupplies)
          THEN msg' = "empty" /\ gSupplies' = gSupplies
          ELSE LET types == UniqueTypes(gSupplies, 0, <<>>)
               IN  /\ Len(types) >= 1
                   /\ \A c \in 1..Len(types) :
                         /\ types[c] \in TypesHeld(gSupplies)
                         /\ findFromTop(gSupplies, types[c], gSupplies.top)
                              \in 0..gSupplies.top
                   /\ msg' = "used"
                   /\ \E i \in 0..gSupplies.top : out' = gSupplies.data[i]
                   /\ gSupplies'.top = gSupplies.top - 1
      ]_vars

\* The record whose type fills the field (29 characters, restored from a
\* file with a longer line) was chosen and taken out from under another.
C35_Witness ==
    /\ op = "ui_use_supply_by_type"
    /\ msg = "used"
    /\ Len(out.type) = SUPPLY_TYPE_CAP - 1
    /\ gSupplies.top = 0
    /\ gSupplies.data[0].type # out.type

(***************************************************************************)
(* C36: the ambulance roster never shrinks once main is in its menu loop.  *)
(***************************************************************************)
\* C36: after the start-up restore no step of the program lowers the count
\* of the ambulance queue (the dispatcher's menu offers registration and
\* rotation only; dequeue runs inside rotateOnce, which enqueues the record
\* again): count never decreases, and a full roster is full after every
\* later step.
C36_RosterNeverShrinks ==
    [][ main_loop =>
          /\ gAmb'.count >= gAmb.count
          /\ AmbulanceCQueue_isFull(gAmb) => AmbulanceCQueue_isFull(gAmb')
      ]_vars

\* A full roster was rotated: it is still full and its head has moved on.
C36_Witness ==
    /\ op = "ui_rotate_shift"
    /\ role = "amb"
    /\ gAmb.count = MAX_AMBULANCES
    /\ gAmb.head = 1
    /\ gAmb.tail = 1
    /\ files["amb"].lines = Serialization("amb")

(***************************************************************************)
(* C37: the sift loops of push and pop, one pass of the loop per step.     *)
(* op tells where the heap's code stands: "push: while" and "pop: while"   *)
(* inside the loops, with loop_i the loop's index i, and the name of the   *)
(* function once it has returned.                                          *)
(***************************************************************************)
InLoop == op \in {"push: while", "pop: while"}

SiftFrame ==
    /\ ret' = "void"
    /\ out' = out
    /\ NoSave
    /\ hist' = NoHist
    /\ shown' = <<>>
    /\ UNCHANGED <<role, gPatients, gSupplies, gAmb>>

\* push up to "int i = sz;".
EmergencyMaxHeap_push_begin(e) ==
    /\ role = "emerg"
    /\ ~InLoop
    /\ IF EmergencyMaxHeap_isFull(gEmerg)
       THEN /\ gEmerg' = gEmerg
            /\ msg' = "Emergency queue is full."
            /\ op' = "EmergencyMaxHeap::push"
            /\ loop_i' = 0
       ELSE /\ gEmerg' = [gEmerg EXCEPT !.sz = gEmerg.sz + 1,
                                        !.data = [gEmerg.data EXCEPT ![gEmerg.sz + 1] = e]]
            /\ msg' = ""
            /\ op' = "push: while"
            /\ loop_i' = gEmerg.sz + 1
    /\ SiftFrame

\* A pass of the loop that swaps and leaves i where it is.
EmergencyMaxHeap_push_while_stays ==
    /\ op = "push: while"
    /\ loop_i > 1
    /\ gEmerg.data[loop_i].priority > gEmerg.data[loop_i \div 2].priority
    /\ gEmerg' = [gEmerg EXCEPT !.data = swapCase(gEmerg.data, loop_i, loop_i \div 2)]
    /\ loop_i' = loop_i
    /\ op' = op
    /\ msg' = msg
    /\ SiftFrame

\* One pass of push's loop: the test holds, swap and i = i / 2.
EmergencyMaxHeap_push_while ==
    /\ op = "push: while"
    /\ loop_i > 1
    /\ gEmerg.data[loop_i].priority > gEmerg.data[loop_i \div 2].priority
    /\ gEmerg' = [gEmerg EXCEPT !.data = swapCase(gEmerg.data, loop_i, loop_i \div 2)]
    /\ loop_i' = loop_i \div 2
    /\ op' = op
    /\ msg' = msg
    /\ SiftFrame

\* The test of push's loop fails: push returns.
EmergencyMaxHeap_push_end ==
    /\ op = "push: while"
    /\ ~(loop_i > 1
         /\ gEmerg.data[loop_i].priority > gEmerg.data[loop_i \div 2].priority)
    /\ gEmerg' = gEmerg
    /\ loop_i' = 0
    /\ op' = "EmergencyMaxHeap::push"
    /\ msg' = msg
    /\ SiftFrame

\* pop up to "int i = 1;".
EmergencyMaxHeap_pop_begin ==
    /\ role = "emerg"
    /\ ~InLoop
    /\ IF EmergencyMaxHeap_isEmpty(gEmerg)
       THEN /\ gEmerg' = gEmerg
            /\ op' = "EmergencyMaxHeap::pop"
            /\ loop_i' = 0
       ELSE /\ gEmerg' = [gEmerg EXCEPT !.sz = gEmerg.sz - 1,
                                        !.data = [gEmerg.data EXCEPT ![1] = gEmerg.data[gEmerg.sz]]]
            /\ op' = "pop: while"
            /\ loop_i' = 1
    /\ msg' = ""
    /\ SiftFrame

\* One pass of pop's loop that does not break: swap and i = largest.
EmergencyMaxHeap_pop_while ==
    /\ op = "pop: while"
    /\ LET largest == largestOf(gEmerg.data, gEmerg.sz, loop_i)
       IN  /\ largest # loop_i
           /\ gEmerg' = [gEmerg EXCEPT !.data = swapCase(gEmerg.data, loop_i, largest)]
           /\ loop_i' = largest
    /\ op' = op
    /\ msg' = msg
    /\ SiftFrame

\* largest == i: break, pop returns.
EmergencyMaxHeap_pop_end ==
    /\ op = "pop: while"
    /\ largestOf(gEmerg.data, gEmerg.sz, loop_i) = loop_i
    /\ gEmerg' = gEmerg
    /\ loop_i' = 0
    /\ op' = "EmergencyMaxHeap::pop"
    /\ msg' = msg
    /\ SiftFrame

InitSift ==
    /\ Constructed
    /\ role = "emerg"
    /\ out = ZeroEmergencyCase
    /\ files = [r \in Roles |-> NoFile]

NextSift ==
    \/ \E e \in EmergRecs : EmergencyMaxHeap_push_begin(e)
    \/ EmergencyMaxHeap_push_while
    \/ EmergencyMaxHeap_push_end
    \/ EmergencyMaxHeap_pop_begin
    \/ EmergencyMaxHeap_pop_while
    \/ EmergencyMaxHeap_pop_end

\* A call that has been entered runs on: the passes of a loop and its exit
\* are taken as long as they are the next thing to do.
SpecSift ==
    /\ InitSift
    /\ [][NextSift]_vars
    /\ WF_vars(EmergencyMaxHeap_push_while)
    /\ WF_vars(EmergencyMaxHeap_push_end)
    /\ WF_vars(EmergencyMaxHeap_pop_while)
    /\ WF_vars(EmergencyMaxHeap_pop_end)

\* C37: push and pop always return, from every state with 0 <= sz <=
\* capacity: each pass of the sift-up loop takes i strictly down and not
\* below 1, each pass of the sift-down loop takes i strictly up and not
\* above sz, and a call that has entered its loop leaves it.
C37_SiftLoopsTerminate ==
    /\ [](gEmerg.sz \in 0..MAX_EMERG)
    /\ [][ (op = "push: while" /\ op' = "push: while") =>
              (1 <= loop_i' /\ loop_i' < loop_i) ]_vars
    /\ [][ (op = "pop: while" /\ op' = "pop: while") =>
              (loop_i < loop_i' /\ loop_i' <= gEmerg.sz) ]_vars
    /\ (op = "push: while") ~> (op = "EmergencyMaxHeap::push")
    /\ (op = "pop: while") ~> (op = "EmergencyMaxHeap::pop")

\* The passes taken one by one arrive at what the loops compute as a whole:
\* at every point of a running loop, finishing it from there gives the same
\* array as finishing it from the point before.
C37_PassesAgreeWithLoops ==
    [][ /\ (op = "push: while" /\ op' = "push: while") =>
              siftUp(gEmerg'.data, loop_i') = siftUp(gEmerg.data, loop_i)
        /\ (op = "push: while" /\ op' = "EmergencyMaxHeap::push") =>
              gEmerg'.data = siftUp(gEmerg.data, loop_i)
        /\ (op = "pop: while" /\ op' = "pop: while") =>
              siftDown(gEmerg'.data, gEmerg'.sz, loop_i')
                = siftDown(gEmerg.data, gEmerg.sz, loop_i)
        /\ (op = "pop: while" /\ op' = "EmergencyMaxHeap::pop") =>
              gEmerg'.data = siftDown(gEmerg.data, gEmerg.sz, loop_i)
      ]_vars

\* A record pushed into slot 4 has been swapped twice and is at the root,
\* the loop about to end.
C37_Witness ==
    /\ op = "push: while"
    /\ loop_i = 1
    /\ gEmerg.sz = 4
    /\ gEmerg.data[1].priority = 9
    /\ gEmerg.data[2].priority = 5
    /\ gEmerg.data[4].priority = 3

(***************************************************************************)
(* C38: restore replaces what the component held.                          *)
(***************************************************************************)
\* What can be told of a component: its indices and its records in
\* traversal order (the slots outside are read by no operation).
QueueView(q, order) == <<q.head, q.tail, q.count, order>>

\* C38: a restore leaves the component as a restore of a newly constructed
\* component from the same file would (indices and records in traversal
\* order: nothing of what was held before is left), and a second restore
\* from the same file right after changes nothing at all.
C38_RestoreReplaces ==
    [][ /\ op' = "load_patients_from_file" =>
              LET fresh == PatientQueue_loadFromFile(PatientQueue_new, files["patients"]).c
              IN  /\ QueueView(gPatients', PatientOrder(gPatients'))
                       = QueueView(fresh, PatientOrder(fresh))
                  /\ PatientQueue_loadFromFile(gPatients', files'["patients"]).c = gPatients'
        /\ op' = "load_supplies_from_file" =>
              LET fresh == SupplyStack_loadFromFile(SupplyStack_new, files["supplies"]).c
              IN  /\ gSupplies'.top = fresh.top
                  /\ StackContents(gSupplies') = StackContents(fresh)
                  /\ SupplyStack_loadFromFile(gSupplies', files'["supplies"]).c = gSupplies'
        /\ op' = "load_ambulances_from_file" =>
              LET fresh == AmbulanceCQueue_loadFromFile(AmbulanceCQueue_new, files["amb"]).c
              IN  /\ QueueView(gAmb', AmbOrder(gAmb')) = QueueView(fresh, AmbOrder(fresh))
                  /\ AmbulanceCQueue_loadFromFile(gAmb', files'["amb"]).c = gAmb'
      ]_vars

\* The same of the heap, whose restore pushes the records read.
C38_HeapRestoreReplaces ==
    [][ op' = "load_emergencies_from_file" =>
          LET fresh == EmergencyMaxHeap_loadFromFile(EmergencyMaxHeap_new, files["emerg"]).c
          IN  /\ gEmerg'.sz = fresh.sz
              /\ EmergOrder(gEmerg') = EmergOrder(fresh)
      ]_vars

\* A queue of two patients, the second admitted without the file being
\* rewritten, was restored from its file of one record: one patient is held
\* and the other is left behind in a slot outside the queue.
C38_Witness ==
    /\ op = "load_patients_from_file"
    /\ gPatients.count = 1
    /\ gPatients.head = 0
    /\ gPatients.data[0].condition = <<"g">>
    /\ gPatients.data[1] # ZeroPatient
    /\ gPatients.data[1] # gPatients.data[0]
    /\ failures = 1

(***************************************************************************)
(* C39: the array indices the container operations use.                    *)
(***************************************************************************)
\* enqueue writes data[tail] and dequeue reads data[head], behind their
\* isFull / isEmpty tests; print and saveToFile read data[(head + i) % MAX]
\* for i < count.
PatientQueue_indices(q) ==
    (IF PatientQueue_isFull(q) THEN {} ELSE {q.tail})
      \cup (IF PatientQueue_isEmpty(q) THEN {} ELSE {q.head})
      \cup { (q.head + i) % MAX_PATIENTS : i \in 0..(q.count - 1) }

AmbulanceCQueue_indices(q) ==
    (IF AmbulanceCQueue_isFull(q) THEN {} ELSE {q.tail})
      \cup (IF AmbulanceCQueue_isEmpty(q) THEN {} ELSE {q.head})
      \cup { (q.head + i) % MAX_AMBULANCES : i \in 0..(q.count - 1) }

\* push writes data[top] after top++, pop reads data[top], both behind
\* their tests; print, saveToFile and the loops of ui_use_supply_by_type
\* over the stack read data[i] for 0 <= i <= top.
SupplyStack_indices(s) ==
    (IF SupplyStack_isFull(s) THEN {} ELSE {s.top + 1})
      \cup (IF SupplyStack_isEmpty(s) THEN {} ELSE {s.top})
      \cup 0..s.top

\* The removal at index: used = data[index], then
\* for (i = index; i < top; ++i) data[i] = data[i + 1];
shift_indices(index, top) ==
    {index} \cup UNION { {i, i + 1} : i \in index..(top - 1) }

\* The sift-up loop entered with i: data[i] and data[i / 2] are read when
\* i > 1, and swapped when the test holds.
RECURSIVE siftUp_indices(_, _)
siftUp_indices(data, i) ==
    IF i > 1
    THEN {i, i \div 2}
           \cup (IF data[i].priority > data[i \div 2].priority
                 THEN siftUp_indices(swapCase(data, i, i \div 2), i \div 2)
                 ELSE {})
    ELSE {}

\* The sift-down loop entered with i: a child is read only behind its
\* "<= sz" test, together with data[largest]; data[i] and data[largest] are
\* swapped when largest is not i.
RECURSIVE siftDown_indices(_, _, _)
siftDown_indices(data, sz, i) ==
    LET left == 2 * i
        right == 2 * i + 1
        l1 == IF left <= sz /\ data[left].priority > data[i].priority
              THEN left ELSE i
        largest == largestOf(data, sz, i)
    IN  (IF left <= sz THEN {left, i} ELSE {})
          \cup (IF right <= sz THEN {right, l1} ELSE {})
          \cup (IF largest = i THEN {}
                ELSE {i, largest} \cup siftDown_indices(swapCase(data, i, largest), sz, largest))

\* push: data[sz] = e after sz++, then the sift-up from sz.
EmergencyMaxHeap_push_indices(h, e) ==
    IF EmergencyMaxHeap_isFull(h) THEN {}
    ELSE {h.sz + 1}
           \cup siftUp_indices([i \in DOMAIN h.data |->
                                   IF i = h.sz + 1 THEN e ELSE h.data[i]], h.sz + 1)

\* pop: data[1] = data[sz], sz--, then the sift-down from 1; top: data[1].
EmergencyMaxHeap_pop_indices(h) ==
    IF EmergencyMaxHeap_isEmpty(h) THEN {}
    ELSE {1, h.sz}
           \cup siftDown_indices([h.data EXCEPT ![1] = h.data[h.sz]], h.sz - 1, 1)

\* C39: in every reachable state, the indices that the operations callable
\* in that state use lie inside the arrays: 0..capacity-1 for the two
\* queues and the stack, with the keyed removal's shift reading data[i + 1]
\* for i + 1 <= top only, and 1..MAX_EMERG for the heap's push, pop and top,
\* pop reading no slot above sz.
C39_IndicesInsideArrays ==
    /\ PatientQueue_indices(gPatients) \subseteq 0..(MAX_PATIENTS - 1)
    /\ AmbulanceCQueue_indices(gAmb) \subseteq 0..(MAX_AMBULANCES - 1)
    /\ SupplyStack_indices(gSupplies) \subseteq 0..(MAX_SUPPLIES - 1)
    /\ \A index \in 0..gSupplies.top :
          /\ shift_indices(index, gSupplies.top) \subseteq 0..(MAX_SUPPLIES - 1)
          /\ shift_indices(index, gSupplies.top) \subseteq 0..gSupplies.top
    /\ \A k \in SupplyKeys :
          findFromTop(gSupplies, k, gSupplies.top) \in (-1)..gSupplies.top
    /\ \A e \in EmergRecs :
          EmergencyMaxHeap_push_indices(gEmerg, e) \subseteq 1..MAX_EMERG
    /\ EmergencyMaxHeap_pop_indices(gEmerg) \subseteq 1..MAX_EMERG
    /\ EmergencyMaxHeap_pop_indices(gEmerg) \subseteq 1..gEmerg.sz
    /\ DOMAIN gPatients.data = 0..(MAX_PATIENTS - 1)
    /\ DOMAIN gAmb.data = 0..(MAX_AMBULANCES - 1)
    /\ DOMAIN gSupplies.data = 0..(MAX_SUPPLIES - 1)
    /\ DOMAIN gEmerg.data = 0..MAX_EMERG

\* A full stack from whose middle a record was taken: the shift read the
\* top slot as data[i + 1] and the stack has room again.
C39_Witness ==
    /\ op = "use_supply_of_type"
    /\ msg = "used"
    /\ gSupplies.top = MAX_SUPPLIES - 2
    /\ gSupplies.data[MAX_SUPPLIES - 1] = gSupplies.data[MAX_SUPPLIES - 2]
    /\ out.type # gSupplies.data[gSupplies.top].type

=============================================================================
